---- MODULE Spec2Model ----
(***************************************************************************)
(* A model of eventdb's destination selection (Service.DestGenerate and    *)
(* Service.nextEvent), the stores it reads and writes (pg.DestStore,       *)
(* pg.EventStore) and the domain error type (errors.E, errors.Is).         *)
(*                                                                         *)
(* Time is counted in minutes.  Event identifiers are the numeric strings  *)
(* Facebook assigns, modelled as positive integers; 0 is the empty         *)
(* identifier (the zero value of eventdb.EventID).  A position is a        *)
(* distance in metres along a line through the user's location.            *)
(***************************************************************************)
EXTENDS Integers, Sequences, FiniteSets, TLC

VARIABLES
    events,   \* table events: event id -> row (EventStore)
    dests,    \* table dests in order of the sequence column (DestStore)
    now,      \* what Service.Time.Now() returns
    call,     \* the last Service.DestGenerate call: its inputs, reply and error
    userRows, \* table users: user id -> row (UserStore)
    sub,      \* the Service.EventSubmit call: its inputs, its place, its error
    built,    \* the last errors.E call: its arguments and the error it built
    access,   \* the last DestGet, DestUpdate or DestList call and its reply
    classified, \* the last IsBadEvent call: the event and the verdict
    conc,      \* DestGenerate and EventSubmit calls running side by side
    nap,       \* the backoffs retry has slept in the running EventSubmit call
    heap,      \* the *Error values allocated by calls of errors.E
    wire       \* the last error sent over the REST API and what the client made of it

vars == <<events, dests, now, call, userRows, sub, built, access, classified,
          conc, nap, heap, wire>>

----------------------------------------------------------------------------
(* Bounds of the model                                                     *)

\* Most rows of table dests in a behaviour of Spec.
MaxDests == 2
\* The latest search query (counted from 1) at which a store failure is injected.
MaxFaultSearch == 1
\* Most rows of table dests in a behaviour of SpecLong.
MaxDestsLong == 12
\* Events of the catalogue of SpecLong.
NumEventsLong == 11
\* Most event bodies the Graph API returns to one call in SpecSubmit.
MaxBodies == 2
\* Most EventSubmit calls in a behaviour of SpecSubmit.
MaxSubmits == 1
\* Most nested errors.E calls in a behaviour of SpecErr.
MaxChain == 3
\* Most nested errors.E calls in a behaviour of SpecMatch.
MaxMatchChain == 2
\* Rows of the longer table dests that SpecDest starts from.
MaxHistory == 15
\* Most IsBadEvent calls in a behaviour of SpecBad.
MaxClassify == 2
\* DestGenerate calls that run side by side in SpecPar.
NumProcs == 2
\* Rows of table users in SpecRotate.
NumCredentials == 4
\* The values of rand.Float64 nearest to 1 that SpecBackoff draws.
MaxDeficit == 5
\* The Error structs allocated in SpecHeap.
MaxObjects == 5
\* The depth of the errors sent in SpecWire.
MaxWireChain == 2
\* Most rows of table dests in SpecPar.
MaxParDests == 3

----------------------------------------------------------------------------
(* Program constants                                                       *)

\* errors.Kind, in the order of its iota declaration
Other == 0
Invalid == 1
NotLoggedIn == 2
Permission == 3
NotExist == 4
Exist == 5
Internal == 6

\* const timeWindow = 90 * time.Minute
timeWindow == 90
\* const radiusM = 8000.0
radiusM == 8000
\* searchTime := now.Add(10 * time.Minute)
searchStart == 10
\* arriveTime := now.Add(30 * time.Minute)
arriveDelay == 30
\* A horizon that lets one more query through: 33 windows.
searchHorizonLonger == 33 * timeWindow
\* if searchTime.Sub(now) > 48*time.Hour
searchHorizon == 2880
\* A page of a dozen rows.
pageSizeDozen == 2 * 6
\* const pageSize = 10
pageSize == 10
\* f_event_duration(data) < interval '10 hours'
maxDuration == 600

\* eventdb.DestGenerateResult
GenerateOK == "ok"
GenerateWait == "wait"
GenerateNoResults == "no-results"
GenerateError == "error"

----------------------------------------------------------------------------
(* errors: an error value is a chain of *Error layers, outermost first,    *)
(* ending in the text of a plain error ("" when the innermost Err is nil). *)
(* The nil error has no layer and no text.                                 *)

NoErr == [chain |-> <<>>, text |-> ""]

\* errors.Str: a plain error, not an *Error
Str(text) == [chain |-> <<>>, text |-> text]

\* errors.E that leaves the user of the wrapped *Error as it was.
EKeepUser(op, kind, user, cause) ==
    IF cause.chain = <<>>
    THEN [chain |-> <<[op |-> op, kind |-> kind, user |-> user]>>, text |-> cause.text]
    ELSE LET prev == Head(cause.chain)
             prevKind == IF prev.kind = kind THEN Other ELSE prev.kind
             eKind == IF kind = Other THEN prevKind ELSE kind
             prevKind2 == IF kind = Other THEN Other ELSE prevKind
         IN [chain |-> <<[op |-> op, kind |-> eKind, user |-> user],
                         [op |-> prev.op, kind |-> prevKind2, user |-> prev.user]>>
                       \o Tail(cause.chain),
             text |-> cause.text]

\* errors.E with the operation, kind and user it was given ("" and Other when
\* not given) and the error argument it recorded (the last one given).  The
\* wrapped *Error is copied and the copy is normalised.
E(op, kind, user, cause) ==
    IF cause.chain = <<>>
    THEN [chain |-> <<[op |-> op, kind |-> kind, user |-> user]>>, text |-> cause.text]
    ELSE LET prev == Head(cause.chain)
             prevUser == IF prev.user = user THEN "" ELSE prev.user
             prevKind == IF prev.kind = kind THEN Other ELSE prev.kind
             eKind == IF kind = Other THEN prevKind ELSE kind
             prevKind2 == IF kind = Other THEN Other ELSE prevKind
         IN [chain |-> <<[op |-> op, kind |-> eKind, user |-> user],
                         [op |-> prev.op, kind |-> prevKind2, user |-> prevUser]>>
                       \o Tail(cause.chain),
             text |-> cause.text]

\* An Is that looks for the kind in every *Error of the chain.
IsAnyLayer(kind, err) == \E i \in DOMAIN err.chain : err.chain[i].kind = kind

\* errors.Is
RECURSIVE Is(_, _)
Is(kind, err) ==
    IF err.chain = <<>> THEN FALSE
    ELSE IF Head(err.chain).kind # Other THEN Head(err.chain).kind = kind
    ELSE Is(kind, [chain |-> Tail(err.chain), text |-> err.text])

\* The Kind field of the outermost *Error (Other for a plain or nil error).
KindOf(err) == IF err.chain = <<>> THEN Other ELSE Head(err.chain).kind

----------------------------------------------------------------------------
(* Injected store failures: the store call that fails in a DestGenerate    *)
(* call (k: which search query, counted from 1; 0 elsewhere).              *)

NoFault == [at |-> "none", k |-> 0]

Faults ==
    {NoFault}
    \cup {[at |-> p, k |-> 0] :
            p \in {"ListForUser", "GetByID", "CreateInsert", "CreateGet",
                   "DestListForUser", "GetMulti"}}
    \cup {[at |-> "Search", k |-> k] : k \in 1..MaxFaultSearch}

\* A failure of the driver that pgErr hands on as it is: not an *Error.
DriverErr == Str("pq: failure")

----------------------------------------------------------------------------
(* pg.DestStore                                                            *)

Min(a, b) == IF a < b THEN a ELSE b

Reverse(s) == [i \in 1..Len(s) |-> s[Len(s) + 1 - i]]

\* DestStore.list failing: errors.E(pgErr(err), "dest list") records the
\* text, the last error argument.
DestListErr == E("", Other, "", Str("dest list"))

\* ListForUser with ORDER BY created_at ASC: the user's rows, oldest first.
ListForUserOldestFirst(tbl, userID, page) ==
    LET mine == SelectSeq(tbl, LAMBDA d : d.userID = userID)
        offset == page * pageSize
    IN  SubSeq(mine, offset + 1, Min(offset + pageSize, Len(mine)))

\* DestStore.ListForUser: the user's rows, newest first (created_at grows
\* with the sequence column), OFFSET page * pageSize LIMIT pageSize.
ListForUser(tbl, userID, page) ==
    LET mine == Reverse(SelectSeq(tbl, LAMBDA d : d.userID = userID))
        offset == page * pageSize
    IN  SubSeq(mine, offset + 1, Min(offset + pageSize, Len(mine)))

\* Create storing the row without its user.
CreateUnowned(tbl, userID, eventID) ==
    Append(tbl, [id |-> Len(tbl) + 1, userID |-> "", eventID |-> eventID,
                 feedback |-> "", status |-> ""])

\* Create under a unique constraint on (user_id, event_id) that ignores
\* the conflict: a second row for the same user and event is not stored.
CreateOnce(tbl, userID, eventID) ==
    IF \E n \in 1..Len(tbl) : tbl[n].userID = userID /\ tbl[n].eventID = eventID
    THEN tbl
    ELSE Append(tbl, [id |-> Len(tbl) + 1, userID |-> userID, eventID |-> eventID,
                      feedback |-> "", status |-> ""])

\* DestStore.Create, the committed transaction: INSERT ... RETURNING sequence,
\* then UPDATE dests SET id = sequence.
Create(tbl, userID, eventID) ==
    Append(tbl, [id |-> Len(tbl) + 1, userID |-> userID, eventID |-> eventID,
                 feedback |-> "", status |-> ""])

\* DestStore.Create failing before the commit: errors.E(pgErr(err), "get dest id")
CreateInsertErr == E("", Other, "", Str("get dest id"))

----------------------------------------------------------------------------
(* pg.EventStore                                                           *)

\* The eventdb.Event that fetchEvents scans from a row.
EventOf(row) ==
    [id |-> row.id, startTime |-> row.startTime, endTime |-> row.endTime,
     isBad |-> (row.isBad = "true")]

\* ORDER BY start_time ASC (rows of equal start time in the order of their ids)
RECURSIVE OrderByStart(_, _)
OrderByStart(tbl, ids) ==
    IF ids = {} THEN <<>>
    ELSE LET first == CHOOSE i \in ids : \A j \in ids :
                          \/ tbl[i].startTime < tbl[j].startTime
                          \/ tbl[i].startTime = tbl[j].startTime /\ i <= j
         IN  <<EventOf(tbl[first])>> \o OrderByStart(tbl, ids \ {first})

\* EventStore.fetchEvents: WHERE id = ANY ($1) ORDER BY start_time ASC
fetchEvents(tbl, eventIDs) ==
    OrderByStart(tbl, {i \in DOMAIN tbl : \E n \in 1..Len(eventIDs) : eventIDs[n] = i})

\* EventStore.fetchEvents failing: errors.E(pgErr(err), "select events")
FetchErr == E("", Other, "", Str("select events"))

\* tstzrange(s1, e1) && tstzrange(s2, e2): both ranges are [lower, upper)
RangesOverlap(s1, e1, s2, e2) == s1 < e1 /\ s2 < e2 /\ s1 < e2 /\ s2 < e1

\* ST_Within(geom, circle of radius radiusM around the user's location)
Within(pos, loc) == (IF pos < loc THEN loc - pos ELSE pos - loc) < radiusM

\* doSearch without the is_bad condition of its WHERE clause.
doSearchAnyFlag(tbl, loc, start, end, includeBad) ==
    {i \in DOMAIN tbl :
        /\ Within(tbl[i].pos, loc)
        /\ tbl[i].street
        /\ RangesOverlap(tbl[i].startTime, tbl[i].endTime, start, end)
        /\ tbl[i].endTime - tbl[i].startTime < maxDuration}

\* EventStore.doSearch: the ids of the rows its WHERE clause keeps
doSearch(tbl, loc, start, end, includeBad) ==
    {i \in DOMAIN tbl :
        /\ Within(tbl[i].pos, loc)
        /\ tbl[i].street
        /\ RangesOverlap(tbl[i].startTime, tbl[i].endTime, start, end)
        /\ tbl[i].endTime - tbl[i].startTime < maxDuration
        /\ (includeBad \/ tbl[i].isBad = "null" \/ tbl[i].isBad = "false")}

\* EventStore.Search
Search(tbl, loc, start, end, includeBad) ==
    OrderByStart(tbl, doSearch(tbl, loc, start, end, includeBad))

\* EventStore.GetByID: [event, err]
GetByID(tbl, eventID) ==
    IF eventID \in DOMAIN tbl
    THEN [event |-> EventOf(tbl[eventID]), err |-> NoErr]
    ELSE [event |-> [id |-> 0, startTime |-> 0, endTime |-> 0, isBad |-> FALSE],
          err |-> E("", NotExist, "", NoErr)]

\* EventStore.GetByID failing in fetchEvents: errors.E(err)
GetByIDErr == E("", Other, "", FetchErr)

\* EventStore.GetMulti failing: errors.E(err, "get multi")
GetMultiErr == E("", Other, "", Str("get multi"))

----------------------------------------------------------------------------
(* service: Service.nextEvent                                              *)

\* The events of one query that nextEvent keeps: not among the dests it
\* listed, and not over when the user arrives.
goodEvents(found, alreadyChosen, t) ==
    SelectSeq(found, LAMBDA event :
        /\ ~ \E n \in 1..Len(alreadyChosen) : alreadyChosen[n].eventID = event.id
        /\ ~ (t + arriveDelay > event.endTime))

\* !lastEvent.StartTime.Before(now): an event starting now counts as unstarted.
LastEventUnstartedOrStarting(lastEvent, t) == lastEvent.startTime >= t

\* lastEvent.StartTime.After(now)
LastEventUnstarted(lastEvent, t) == lastEvent.startTime > t

\* What nextEvent hands back before the random choice: the result, the
\* error, the candidates of the last query, the start times of the queries
\* issued, the ids the queries returned, and the store call that failed.
Found(result, err, good, queries, returned, failed) ==
    [result |-> result, err |-> err, good |-> good, queries |-> queries,
     returned |-> returned, failed |-> failed]

\* The store calls nextEvent makes before its first query.
lookups(alreadyChosen) ==
    IF Len(alreadyChosen) > 0
    THEN <<"DestStore.ListForUser", "EventStore.GetByID">>
    ELSE <<"DestStore.ListForUser">>

\* The for loop of nextEvent, from the query that starts at searchTime.
RECURSIVE searchLoop(_, _, _, _, _, _, _)
searchLoop(userID, loc, alreadyChosen, fault, searchTime, queries, returned) ==
    IF searchTime - now > searchHorizon
    THEN Found(GenerateNoResults, NoErr, <<>>, queries, returned, NoFault)
    ELSE LET issued == Append(queries, searchTime)
         IN  IF fault = [at |-> "Search", k |-> Len(issued)]
             THEN IF Is(NotExist, DriverErr)
                  THEN Found(GenerateNoResults, NoErr, <<>>, issued, returned, fault)
                  ELSE Found(GenerateError,
                             E("Service.nextEvent", Other, userID, DriverErr),
                             <<>>, issued, returned, fault)
             ELSE LET found == Search(events, loc, searchTime,
                                      searchTime + timeWindow, FALSE)
                      good == goodEvents(found, alreadyChosen, now)
                      seen == returned \cup {found[n].id : n \in 1..Len(found)}
                  IN  IF Len(good) = 0
                      THEN searchLoop(userID, loc, alreadyChosen, fault,
                                      searchTime + timeWindow, issued, seen)
                      ELSE Found(GenerateOK, NoErr, good, issued, seen, NoFault)

\* Service.nextEvent up to the random choice among the candidates.
nextEvent(userID, loc, fault) ==
    IF fault.at = "ListForUser"
    THEN Found(GenerateError,
               E("Service.nextEvent", Other, userID, Str("list dests")),
               <<>>, <<>>, {}, fault)
    ELSE
    LET alreadyChosen == ListForUser(dests, userID, 0)
        last == IF Len(alreadyChosen) > 0
                THEN GetByID(events, alreadyChosen[1].eventID)
                ELSE [event |-> EventOf([id |-> 0, startTime |-> 0, endTime |-> 0,
                                         isBad |-> "null"]),
                      err |-> NoErr]
    IN  IF Len(alreadyChosen) > 0 /\ (fault.at = "GetByID" \/ last.err # NoErr)
        THEN Found(GenerateError,
                   E("Service.nextEvent", Other, userID, Str("get last event")),
                   <<>>, <<>>, {},
                   IF fault.at = "GetByID" THEN fault ELSE NoFault)
        ELSE IF Len(alreadyChosen) > 0 /\ LastEventUnstarted(last.event, now)
        THEN Found(GenerateWait, NoErr, <<>>, <<>>, {}, NoFault)
        ELSE searchLoop(userID, loc, alreadyChosen, fault,
                        now + searchStart, <<>>, {})

----------------------------------------------------------------------------
(* service: Service.DestList                                               *)

\* Service.DestList for the caller actorID: [dests, events, err, failed],
\* events[n] being the event side-loaded into dests[n] (id 0: none found).
DestList(destTbl, actorID, page, fault) ==
    IF actorID = ""
    THEN [dests |-> <<>>, events |-> <<>>, failed |-> NoFault,
          err |-> E("Service.DestList", NotLoggedIn, "", NoErr)]
    ELSE IF fault.at = "DestListForUser"
    THEN [dests |-> <<>>, events |-> <<>>, failed |-> fault,
          err |-> E("Service.DestList", Other, "", DestListErr)]
    ELSE IF fault.at = "GetMulti"
    THEN [dests |-> <<>>, events |-> <<>>, failed |-> fault,
          err |-> E("Service.DestList", Other, "", GetMultiErr)]
    ELSE
    LET listed == ListForUser(destTbl, actorID, page)
        loaded == fetchEvents(events, [n \in 1..Len(listed) |-> listed[n].eventID])
        sideLoad(d) ==
            IF \E m \in 1..Len(loaded) : loaded[m].id = d.eventID
            THEN loaded[CHOOSE m \in 1..Len(loaded) :
                            /\ loaded[m].id = d.eventID
                            /\ \A l \in 1..(m - 1) : loaded[l].id # d.eventID]
            ELSE [id |-> 0, startTime |-> 0, endTime |-> 0, isBad |-> FALSE]
    IN  [dests |-> listed,
         events |-> [n \in 1..Len(listed) |-> sideLoad(listed[n])],
         err |-> NoErr, failed |-> NoFault]

----------------------------------------------------------------------------
(* service: Service.DestGenerate                                           *)

\* auth.Info of the callers: anonymous, a user, an admin.
Actors ==
    {[id |-> "", isAdmin |-> FALSE], [id |-> "user", isAdmin |-> FALSE],
     [id |-> "admin", isAdmin |-> TRUE]}

\* DestGenerateRequest.UserID
RequestedUsers == {"", "me", "user", "admin"}

\* DestGenerateRequest.Lat, Lng: where the user is (the events of the
\* catalogue are there or 20 km away)
Locations == {0}

\* The record of a call: the inputs, the resolved user, the reply
\* (result, replyDests, replyEvents), the error, and what the call did
\* (the event chosen, the queries issued and the ids they returned, the
\* other store calls made, the store call that failed, the number of dests
\* rows before the call, whether dereferencing a nil Event panicked).
CallRecord(actor, reqUser, loc) ==
    [actor |-> actor, reqUser |-> reqUser, loc |-> loc, at |-> now,
     before |-> Len(dests), userID |-> reqUser, result |-> GenerateOK,
     err |-> NoErr, chosenID |-> 0, queries |-> <<>>, returned |-> {},
     replyDests |-> <<>>, replyEvents |-> <<>>, storeOps |-> <<>>,
     failed |-> NoFault, panicked |-> FALSE]

\* The end of DestGenerate: the caller's dests, as DestList returned them
\* (list), become the reply.  c is the call so far, created table dests.
reply(c, created, list) ==
    IF list.err # NoErr
    THEN [call |-> [c EXCEPT !.failed = list.failed,
                     !.err = E("Service.DestGenerate", Internal, c.userID,
                               list.err)],
          dests |-> created]
    ELSE IF \E m \in 1..Len(list.events) : list.events[m].id = 0
    THEN [call |-> [c EXCEPT !.panicked = TRUE], dests |-> created]
    ELSE [call |-> [c EXCEPT !.replyDests = list.dests,
                             !.replyEvents = list.events],
          dests |-> created]

\* The part of DestGenerate after nextEvent: the result is set, the chosen
\* event is recorded as a new Dest, the caller's dests are listed.
\* [call, dests]: the record of the call and table dests after it.
finish(c, ne, chosenID, fault) ==
    LET creates == ne.result = GenerateOK
        created == IF creates /\ fault.at # "CreateInsert"
                   THEN Create(dests, c.userID, chosenID)
                   ELSE dests
        c1 == [c EXCEPT !.result = ne.result, !.chosenID = chosenID,
                        !.queries = ne.queries, !.returned = ne.returned,
                        !.storeOps =
                            lookups(ListForUser(dests, c.userID, 0))
                            \o (IF creates THEN <<"DestStore.Create">> ELSE <<>>)]
    IN  IF creates /\ fault.at = "CreateInsert"
        THEN [call |-> [c1 EXCEPT !.failed = fault,
                         !.err = E("Service.DestGenerate", Internal, c.userID,
                                   CreateInsertErr)],
              dests |-> created]
        ELSE IF creates /\ fault.at = "CreateGet"
        THEN [call |-> [c1 EXCEPT !.failed = fault,
                         !.err = E("Service.DestGenerate", Internal, c.userID,
                                   DestListErr)],
              dests |-> created]
        ELSE reply([c1 EXCEPT !.storeOps =
                       IF fault.at = "DestListForUser"
                       THEN Append(@, "DestStore.ListForUser")
                       ELSE @ \o <<"DestStore.ListForUser", "EventStore.GetMulti">>],
                   created, DestList(created, c.actor.id, 0, fault))

\* The permission checks without the comparison of the resolved user with
\* the caller: any caller who is logged in may generate for any user.
authorizeAnyUser(actor, reqUser) ==
    LET userID == IF reqUser = "me" \/ reqUser = "" THEN actor.id ELSE reqUser
    IN  IF actor.id = ""
        THEN [ok |-> FALSE, userID |-> reqUser]
        ELSE [ok |-> TRUE, userID |-> userID]

\* The head of DestGenerate: the user the request resolves to, and whether
\* the caller may generate for that user.
authorize(actor, reqUser) ==
    LET userID == IF reqUser = "me" \/ reqUser = "" THEN actor.id ELSE reqUser
    IN  IF actor.id = ""
        THEN [ok |-> FALSE, userID |-> reqUser]
        ELSE [ok |-> userID = actor.id \/ actor.isAdmin, userID |-> userID]

\* DestGenerate returning at a failed permission check.
denied(actor, reqUser, loc) ==
    [CallRecord(actor, reqUser, loc) EXCEPT
        !.userID = authorize(actor, reqUser).userID,
        !.err = E("Service.DestGenerate", Permission, "", NoErr)]

\* DestGenerate from the call of nextEvent on, ne being what nextEvent found
\* and n the random choice among its candidates.
\* [call, dests]: the record of the call and table dests after it.
generate(actor, reqUser, loc, ne, n, fault) ==
    LET c == [CallRecord(actor, reqUser, loc) EXCEPT
                  !.userID = authorize(actor, reqUser).userID]
    IN  IF ne.err # NoErr
        THEN [call |-> [c EXCEPT
                  !.err = E("Service.DestGenerate", Internal, "", ne.err),
                  !.queries = ne.queries, !.returned = ne.returned,
                  !.failed = ne.failed,
                  !.storeOps = IF ne.failed.at = "ListForUser"
                               THEN <<"DestStore.ListForUser">>
                               ELSE lookups(ListForUser(dests, c.userID, 0))],
              dests |-> dests]
        ELSE finish(c, ne, IF ne.result = GenerateOK THEN ne.good[n].id ELSE 0,
                    fault)

\* The failures nextEvent can run into, and those after it.
SearchFaults == {f \in Faults : f.at \in {"ListForUser", "GetByID", "Search"}}
LaterFaults == Faults \ (SearchFaults \cup {NoFault})

\* One call of Service.DestGenerate: either it is refused, or nextEvent runs
\* (with or without a failing store call), one of its candidates is chosen
\* at random and the call completes (with or without a later store call
\* failing).  No more than maxDests rows are created.
DestGenerate(actors, users, locs, faults, maxDests) ==
    \/ \E actor \in actors, reqUser \in users, loc \in locs :
          /\ ~authorize(actor, reqUser).ok
          /\ call' = denied(actor, reqUser, loc)
          /\ UNCHANGED <<events, dests, now, userRows, sub,
                         built, access, classified,
                         conc, nap, heap, wire>>
    \/ \E userID \in {au.userID : au \in {x \in {authorize(a, u) : a \in actors,
                                                    u \in users} : x.ok}},
          loc \in locs, sf \in (faults \cap SearchFaults) \cup {NoFault} :
          \E ne \in {nextEvent(userID, loc, sf)} :
              /\ ne.failed = sf
              /\ \E actor \in actors, reqUser \in users :
                    /\ authorize(actor, reqUser) = [ok |-> TRUE, userID |-> userID]
                    /\ \E n \in (IF Len(ne.good) = 0 THEN {1} ELSE 1..Len(ne.good)),
                          lf \in (IF sf = NoFault
                                  THEN (faults \cap LaterFaults) \cup {NoFault}
                                  ELSE {NoFault}) :
                          \E out \in {generate(actor, reqUser, loc, ne, n, lf)} :
                              /\ out.call.failed = (IF sf = NoFault THEN lf ELSE sf)
                              /\ Len(out.dests) <= maxDests
                              /\ call' = out.call
                              /\ dests' = out.dests
                              /\ UNCHANGED <<events, now, userRows, sub,
                                             built, access, classified,
                                             conc, nap, heap, wire>>

----------------------------------------------------------------------------
(* pg.UserStore, and EventStore.Save and SetBad                            *)

\* RandomFBToken without its WHERE clause: any user of the table.
AnyUser(tbl) == DOMAIN tbl

\* UserStore.RandomFBToken: the users whose facebook_token is not empty,
\* one of which the query returns.
TokenHolders(tbl) == {u \in DOMAIN tbl : tbl[u].facebookToken # ""}

\* RandomFBToken when no row matches:
\* errors.E("no facebook tokens available", pgErr(sql.ErrNoRows))
NoTokenErr == E("", Other, "", E("", NotExist, "", NoErr))

\* UserStore.Update, the upsert: the fields named in the mask are written,
\* a missing row is inserted with its other fields empty.
UserUpdate(tbl, userID, update, mask) ==
    LET old == IF userID \in DOMAIN tbl THEN tbl[userID]
               ELSE [facebookToken |-> "", facebookID |-> ""]
        new == [f \in {"facebookToken", "facebookID"} |->
                   IF f \in mask THEN update[f] ELSE old[f]]
    IN  [u \in DOMAIN tbl \cup {userID} |-> IF u = userID THEN new ELSE tbl[u]]

\* Save that empties the table before its INSERT: the row of the body is
\* the only row left.
SaveAfresh(tbl, body) ==
    [i \in {body.id} |->
        [id |-> body.id, startTime |-> body.startTime,
         endTime |-> body.endTime, pos |-> body.pos,
         street |-> body.street, isBad |-> "null",
         name |-> body.name, description |-> body.description]]

\* EventStore.Save, the committed transaction: INSERT ... ON CONFLICT (id)
\* DO UPDATE SET data, under the id the body carries; is_bad is left as it
\* was (NULL in a new row).
Save(tbl, body) ==
    LET flag == IF body.id \in DOMAIN tbl THEN tbl[body.id].isBad ELSE "null"
    IN  [i \in DOMAIN tbl \cup {body.id} |->
            IF i = body.id
            THEN [id |-> body.id, startTime |-> body.startTime,
                  endTime |-> body.endTime, pos |-> body.pos,
                  street |-> body.street, isBad |-> flag,
                  name |-> body.name, description |-> body.description]
            ELSE tbl[i]]

\* The eventdb.Event that Save reads back, with its Name and Description.
SavedEvent(row) ==
    [id |-> row.id, startTime |-> row.startTime, endTime |-> row.endTime,
     isBad |-> (row.isBad = "true"), name |-> row.name,
     description |-> row.description]

\* SetBad whose UPDATE matches no row.
SetBadNoRow(tbl, eventID, isBad) == tbl

\* EventStore.SetBad: UPDATE events SET is_bad = $1 WHERE id = $2
SetBad(tbl, eventID, isBad) ==
    [i \in DOMAIN tbl |->
        IF i = eventID
        THEN [tbl[i] EXCEPT !.isBad = IF isBad THEN "true" ELSE "false"]
        ELSE tbl[i]]

\* eventdb.IsBadEvent: a name or a description is a sequence of tokens,
\* lower-case words, numbers and symbols; a filter matches a token
\* (\bfuneral\b, \bbar\b, dollars, RSVP, a currency symbol of the list, ...)
\* or two tokens in a row (\bsold out\b, support group, Rs and a number).
nameFilters ==
    {<<"sold", "out">>, <<"cancel">>, <<"geschlossene">>, <<"abgesagte">>,
     <<"annulliert">>, <<"funeral">>, <<"bar">>, <<"pub">>}

\* The numbers that follow a price in a description.
Numbers == {"5", "20"}

descFilters ==
    {<<sym>> : sym \in {"$", "¥", "₹", "₡", "₱", "£", "€", "₩", "₨", "﷼", "₽"}}
    \cup {<<"dollars">>}
    \cup {<<"Rs", num>> : num \in Numbers}
    \cup {<<"support", "group">>}
    \cup {<<who, "only">> : who \in {"men", "women", "children"}}
    \cup {<<"regist">>, <<"rsvp">>, <<"anmelden">>, <<"anmeldung">>}

MatchString(filt, text) ==
    \E n \in 1..(Len(text) - Len(filt) + 1) :
        \A m \in 1..Len(filt) : text[n + m - 1] = filt[m]

\* The lengths of the filters, in tokens.
FilterLens == {Len(filt) : filt \in nameFilters \cup descFilters}

\* The loop over a list of filters: some filter of the list matches the
\* text, that is, some run of tokens of the text is a filter of the list.
MatchAny(filters, text) ==
    \E n \in 1..Len(text), k \in FilterLens :
        /\ n + k - 1 <= Len(text)
        /\ SubSeq(text, n, n + k - 1) \in filters

IsBadEvent(event) ==
    \/ MatchAny(nameFilters, event.name)
    \/ MatchAny(descFilters, event.description)

----------------------------------------------------------------------------
(* service: Service.EventSubmit and retry                                  *)

\* retry(ctx, 2, ...): one retry less.
retryCountTwo == 1 + 1
\* retry(ctx, 4, ...): one more retry.
retryCountFour == 2 * 2
\* retry(ctx, 3, ...)
retryCount == 3
\* if len(eventIDs) > 51: one more id allowed.
maxEventIDsPlusOne == 50 + 1
\* if len(eventIDs) > 50
maxEventIDs == 50

\* The store calls of one attempt that can fail (k: at which body, counted
\* from 1; 0 elsewhere).
SubmitFaults ==
    {[at |-> p, k |-> 0] : p \in {"RandomFBToken", "UserUpdateExec", "UserUpdateGet"}}
    \cup {[at |-> p, k |-> k] : p \in {"SaveExec", "SaveGet", "SetBad"},
                                k \in 1..MaxBodies}

\* EventStore.Save failing before the commit: errors.E(pgErr(err), "insert event")
SaveErr == E("", Other, "", Str("insert event"))
\* An error of the Graph API other than an expired token.
FacebookErr == Str("facebook: error")
\* ctx.Err() of a cancelled context
ContextCanceled == Str("context canceled")

\* The loop over the fetched bodies from body j on: Save, then SetBad with
\* IsBadEvent of the event Save read back.  [events, err, failed]
RECURSIVE saveEvents(_, _, _, _)
saveEvents(tbl, bodies, j, fault) ==
    IF j > Len(bodies)
    THEN [events |-> tbl, err |-> NoErr, failed |-> NoFault]
    ELSE IF fault = [at |-> "SaveExec", k |-> j]
    THEN [events |-> tbl, failed |-> fault,
          err |-> E("Service.EventSubmit", Internal, "", SaveErr)]
    ELSE LET saved == Save(tbl, bodies[j])
             event == SavedEvent(saved[bodies[j].id])
         IN  IF fault = [at |-> "SaveGet", k |-> j]
             THEN [events |-> saved, failed |-> fault,
                   err |-> E("Service.EventSubmit", Internal, "", GetByIDErr)]
             ELSE IF fault = [at |-> "SetBad", k |-> j]
             THEN [events |-> saved, failed |-> fault,
                   err |-> E("Service.EventSubmit", Internal, "", DriverErr)]
             ELSE saveEvents(SetBad(saved, event.id, IsBadEvent(event)),
                             bodies, j + 1, fault)

\* What one attempt did: the tables after it, its error, the user whose
\* token it acquired, how it went, the bodies fetched, the failed store call.
Attempted(userTbl, eventTbl, err, fetcher, outcome, bodies, failed) ==
    [users |-> userTbl, events |-> eventTbl, err |-> err, fetcher |-> fetcher,
     outcome |-> outcome, bodies |-> bodies, failed |-> failed]

\* The attempt storing the bodies that came with the error before it
\* returns the error.
fetchFailedStoring(fetcher, bodies) ==
    Attempted(userRows, saveEvents(events, bodies, 1, NoFault).events,
              FacebookErr, fetcher, "fetch-error", bodies, NoFault)

\* The attempt when GetEventInfo returns an error that is not an expired
\* token: return err, whatever bodies came with it.
fetchFailed(fetcher, bodies) ==
    Attempted(userRows, events, FacebookErr, fetcher, "fetch-error", bodies,
              NoFault)

\* One attempt, the function EventSubmit hands to retry.  fetcher is the
\* user RandomFBToken picks, fb what the Graph API answers ("ok", "expired",
\* "error"), bodies the event bodies it returns.
attempt(userID, fetcher, fb, bodies, fault) ==
    IF fault.at = "RandomFBToken"
    THEN Attempted(userRows, events,
                   E("Service.EventSubmit", Internal, userID, DriverErr),
                   "", "no-credential", <<>>, fault)
    ELSE IF TokenHolders(userRows) = {}
    THEN Attempted(userRows, events,
                   E("Service.EventSubmit", Internal, userID, NoTokenErr),
                   "", "no-credential", <<>>, NoFault)
    ELSE IF fb = "expired"
    THEN LET cleared == UserUpdate(userRows, fetcher, [facebookToken |-> "",
                                                    facebookID |-> ""],
                                   {"facebookToken"})
         IN  IF fault.at = "UserUpdateExec"
             THEN Attempted(userRows, events,
                            E("Service.EventSubmit", Other, userID, DriverErr),
                            fetcher, "expired", <<>>, fault)
             ELSE IF fault.at = "UserUpdateGet"
             THEN Attempted(cleared, events,
                            E("Service.EventSubmit", Other, userID, DriverErr),
                            fetcher, "expired", <<>>, fault)
             ELSE Attempted(cleared, events,
                            E("Service.EventSubmit", Other, userID,
                              Str("facebook token expired")),
                            fetcher, "expired", <<>>, NoFault)
    ELSE IF fb = "error"
    THEN fetchFailed(fetcher, bodies)
    ELSE LET saved == saveEvents(events, bodies, 1, fault)
         IN  Attempted(userRows, saved.events, saved.err, fetcher,
                       IF saved.err = NoErr THEN "saved" ELSE "store-error",
                       bodies, saved.failed)

\* No EventSubmit call has been made.
NoSubmit ==
    [pc |-> "idle", actor |-> "", ids |-> <<>>, retries |-> 0, attempts |-> 0,
     sleeps |-> 0, cancelled |-> FALSE, fetcher |-> "", outcome |-> "none",
     bodies |-> <<>>, attemptErr |-> NoErr, expired |-> {}, failed |-> NoFault,
     err |-> NoErr, calls |-> 0]

\* The checks of EventSubmit without the check of the caller.
submitCheckSize(actorID, ids) ==
    IF Len(ids) > maxEventIDs
    THEN E("Service.EventSubmit", Invalid, actorID, Str("event list length > max"))
    ELSE NoErr

\* The checks of EventSubmit before the retry loop: the error it returns
\* at once (NoErr: it goes on to the loop).
submitCheck(actorID, ids) ==
    IF actorID = ""
    THEN E("Service.EventSubmit", Permission, "", NoErr)
    ELSE IF Len(ids) > maxEventIDs
    THEN E("Service.EventSubmit", Invalid, actorID, Str("event list length > max"))
    ELSE NoErr

\* The backoffs retry has slept in the running call: none yet.
NoNap == <<>>

\* A call of EventSubmit up to the retry loop.
EventSubmit(actorIDs, requests, maxCalls) ==
    /\ sub.pc \in {"idle", "done"}
    /\ sub.calls < maxCalls
    /\ \E actorID \in actorIDs, ids \in requests :
          sub' = [NoSubmit EXCEPT
                     !.calls = sub.calls + 1, !.actor = actorID, !.ids = ids,
                     !.err = submitCheck(actorID, ids),
                     !.pc = IF submitCheck(actorID, ids) = NoErr
                            THEN "retry" ELSE "done",
                     !.retries = IF submitCheck(actorID, ids) = NoErr
                                 THEN retryCount ELSE 0]
    /\ nap' = NoNap
    /\ UNCHANGED <<events, dests, now, call, userRows,
                   built, access, classified,
                   conc, heap, wire>>

\* retry after f() returned: the call s, a what the attempt did.
afterAttempt(s, a) ==
    LET s1 == [s EXCEPT !.attempts = @ + 1, !.fetcher = a.fetcher,
                        !.outcome = a.outcome, !.bodies = a.bodies,
                        !.attemptErr = a.err, !.failed = a.failed,
                        !.expired = IF /\ a.outcome = "expired"
                                       /\ a.failed.at # "UserUpdateExec"
                                    THEN @ \cup {a.fetcher} ELSE @]
    IN  IF a.err = NoErr
        THEN [s1 EXCEPT !.pc = "done"]
        ELSE IF s.retries = 0
        THEN [s1 EXCEPT !.pc = "done",
                        !.err = E("Service.EventSubmit", Other, "", a.err)]
        ELSE [s1 EXCEPT !.retries = @ - 1, !.pc = "sleep"]

\* The bodies the Graph API may return for the ids of a request: one for
\* each of the first MaxBodies ids, in one of the forms the event may have.
Responses(ids, forms) ==
    {bodies \in [1..Min(Len(ids), MaxBodies) -> forms] :
        \A j \in DOMAIN bodies : bodies[j].id = ids[j]}

\* What the Graph API answers to a token: a token it has expired ("stale")
\* is reported expired, a token in good standing ("valid") is served, and
\* to a token of unknown standing it may answer either way or fail
\* otherwise.
GraphAnswers(token) ==
    CASE token = "stale" -> {"expired"}
      [] token = "valid" -> {"ok"}
      [] OTHER -> {"ok", "expired", "error"}

\* The bodies GetEventInfo returns alongside an error: those of the batch
\* before the response that failed.
Partial(responses) ==
    UNION {{SubSeq(bodies, 1, n) : n \in 0..(Len(bodies) - 1)} :
              bodies \in responses}

\* retry at label RETRY: ctx.Err() is checked, then the attempt is made.
\* No user is picked and the Graph API is not called when RandomFBToken
\* fails; the Graph API returns bodies to the attempt when it answers
\* without an error, and the bodies before the failed one with an error
\* that is not an expired token.
Attempt(faults, forms) ==
    /\ sub.pc = "retry"
    /\ IF sub.cancelled
       THEN /\ sub' = [sub EXCEPT !.pc = "done",
                          !.err = E("Service.EventSubmit", Other, "", ContextCanceled)]
            /\ UNCHANGED <<events, userRows>>
       ELSE \E fault \in faults \cup {NoFault} :
               \E fetcher \in (IF \/ fault.at = "RandomFBToken"
                                  \/ TokenHolders(userRows) = {}
                               THEN {""} ELSE TokenHolders(userRows)) :
               \E fb \in (IF fetcher = "" THEN {"none"}
                          ELSE GraphAnswers(userRows[fetcher].facebookToken)) :
               \E bodies \in (IF fb = "ok" THEN Responses(sub.ids, forms)
                              ELSE IF fb = "error" /\ fault = NoFault
                              THEN Partial(Responses(sub.ids, forms))
                              ELSE {<<>>}) :
               \E a \in {attempt(sub.actor, fetcher, fb, bodies, fault)} :
                   /\ a.failed = fault
                   /\ a.fetcher = fetcher
                   /\ events' = a.events
                   /\ userRows' = a.users
                   /\ sub' = afterAttempt(sub, a)
    /\ UNCHANGED <<dests, now, call, built, access, classified,
                   conc, nap, heap, wire>>

\* A float64 in [0, 1) as rand.Float64 returns it: k / 2^53 for an integer
\* 0 <= k < 2^53, k held as hi * 2^27 + lo.
NoJitter == [hi |-> 0, lo |-> 0]

\* The values of rand.Float64 drawn: 0, 1/2, and the largest ones,
\* 1 - m / 2^53.
Jitters ==
    {NoJitter, [hi |-> 2 ^ 25, lo |-> 0]}
    \cup {[hi |-> 2 ^ 26 - 1, lo |-> 2 ^ 27 - m] : m \in 1..MaxDeficit}

\* math.Pow(2, float64(retries)) + rand.Float64(), the float64 sum: the
\* exact sum rounded to the 53 bits of a float64 in [2^retries,
\* 2^(retries+1)], to nearest and to even on a tie.  One unit in the last
\* place of such a float is 2^(retries+1) / 2^53.  [seconds, hi, lo]: the
\* whole part of the sum and its fraction (hi * 2^27 + lo) / 2^53.
FloatSum(retries, jitter) ==
    LET ulp == 2 ^ (retries + 1)
        floor == jitter.lo \div ulp
        rest == jitter.lo % ulp
        up == 2 * rest > ulp \/ (2 * rest = ulp /\ floor % 2 = 1)
        lo == (IF up THEN floor + 1 ELSE floor) * ulp
    IN  IF lo < 2 ^ 27
        THEN [seconds |-> 2 ^ retries, hi |-> jitter.hi, lo |-> lo]
        ELSE IF jitter.hi + 1 < 2 ^ 26
        THEN [seconds |-> 2 ^ retries, hi |-> jitter.hi + 1, lo |-> 0]
        ELSE [seconds |-> 2 ^ retries + 1, hi |-> 0, lo |-> 0]

\* time.Duration(sum * float64(time.Second)): the whole seconds slept are
\* the whole part of the sum (a sum below n + 1 times 10^9 stays below
\* (n + 1) * 10^9 as a float64, and the conversion truncates); frac tells
\* whether a fraction of a second is slept on top.
backoff(retries, jitter) ==
    LET sum == FloatSum(retries, jitter)
    IN  [retries |-> retries, jitter |-> jitter, seconds |-> sum.seconds,
         frac |-> sum.hi # 0 \/ sum.lo # 0]

\* retry sleeping its backoff before the next attempt; retries has been
\* decremented.
Sleep(jitters) ==
    /\ sub.pc = "sleep"
    /\ sub' = [sub EXCEPT !.pc = "retry", !.sleeps = @ + 1]
    /\ \E jitter \in jitters : nap' = Append(nap, backoff(sub.retries, jitter))
    /\ UNCHANGED <<events, dests, now, call, userRows,
                   built, access, classified,
                   conc, heap, wire>>

\* The context of the call is cancelled (or its deadline passes).
Cancel ==
    /\ sub.pc \in {"retry", "sleep"}
    /\ ~sub.cancelled
    /\ sub' = [sub EXCEPT !.cancelled = TRUE]
    /\ UNCHANGED <<events, dests, now, call, userRows,
                   built, access, classified,
                   conc, nap, heap, wire>>

----------------------------------------------------------------------------
(* errors: chains built by nested calls of errors.E                        *)

\* The *Error or plain error that the outermost *Error of err wraps (its
\* field Err; NoErr when the field is nil).
Wrapped(err) ==
    IF err.chain = <<>> THEN NoErr
    ELSE [chain |-> Tail(err.chain), text |-> err.text]

\* The kinds the errors.E calls of SpecErr are given.
ErrKinds == {Other, Invalid, NotLoggedIn, Permission, NotExist, Exist, Internal}
\* The operations they are given ("": none).
ErrOps == {"", "Service.DestGet"}
\* The users they are given ("": none).
ErrUsers == {"", "user", "admin"}
\* The innermost error arguments: none, or a plain error.
ErrLeaves == {NoErr, Str("dest not found")}

\* No errors.E call has been made; leaf is the error the first call wraps.
\* No errors.Match call has been made (other: its second argument).
NoBuilt ==
    [depth |-> 0, op |-> "", kind |-> Other, user |-> "", cause |-> NoErr,
     err |-> NoErr, leaf |-> NoErr, other |-> NoErr, matched |-> "none"]

\* A call errors.E(op, kind, user, cause), where cause is the error the
\* call before it built (the first call is given the leaf).
Construct(ops, kinds, users, maxDepth) ==
    /\ built.depth < maxDepth
    /\ \E op \in ops, kind \in kinds, user \in users :
          \E cause \in {IF built.depth = 0 THEN built.leaf ELSE built.err} :
              built' = [depth |-> built.depth + 1, op |-> op, kind |-> kind,
                        user |-> user, cause |-> cause,
                        err |-> E(op, kind, user, cause), leaf |-> built.leaf,
                        other |-> NoErr, matched |-> "none"]
    /\ UNCHANGED <<events, dests, now, call, userRows, sub, access, classified,
                   conc, nap, heap, wire>>

\* Kind.String
KindString(kind) ==
    CASE kind = Other -> "other error"
      [] kind = NotExist -> "item does not exist"
      [] kind = Exist -> "item already exists"
      [] kind = Permission -> "permission denied"
      [] kind = NotLoggedIn -> "not logged in"
      [] kind = Invalid -> "invalid request"
      [] kind = Internal -> "internal error"
      [] OTHER -> "unknown error kind"

\* pad: the separator, unless nothing has been written yet.
pad(b, str) == IF b = <<>> THEN <<>> ELSE <<str>>

\* Error.isZero
isZero(err) ==
    err = [chain |-> <<[op |-> "", kind |-> Other, user |-> ""]>>, text |-> ""]

\* The Error method of a non-nil error: the string it returns, as the
\* sequence of the pieces written to the buffer.
RECURSIVE ErrorText(_)
ErrorText(err) ==
    IF err.chain = <<>> THEN <<err.text>>
    ELSE LET e == Head(err.chain)
             b1 == IF e.op # "" THEN <<e.op>> ELSE <<>>
             b2 == IF e.user # "" THEN b1 \o pad(b1, ", ") \o <<"user ", e.user>>
                   ELSE b1
             b3 == IF e.kind # Other
                   THEN b2 \o pad(b2, ": ") \o <<KindString(e.kind)>>
                   ELSE b2
             b4 == IF Wrapped(err) = NoErr THEN b3
                   ELSE IF Wrapped(err).chain # <<>>
                   THEN IF isZero(Wrapped(err)) THEN b3
                        ELSE b3 \o pad(b3, ":\n\t") \o ErrorText(Wrapped(err))
                   ELSE b3 \o pad(b3, ": ") \o <<err.text>>
         IN  IF b4 = <<>> THEN <<"no error">> ELSE b4

\* errors.Match(err1, err2)
RECURSIVE Match(_, _)
Match(err1, err2) ==
    IF err1.chain = <<>> \/ err2.chain = <<>> THEN FALSE
    ELSE LET e1 == Head(err1.chain)
             e2 == Head(err2.chain)
         IN  IF e1.user # "" /\ e2.user # e1.user THEN FALSE
             ELSE IF e1.op # "" /\ e2.op # e1.op THEN FALSE
             ELSE IF e1.kind # Other /\ e2.kind # e1.kind THEN FALSE
             ELSE IF Wrapped(err1) = NoErr THEN TRUE
             ELSE IF Wrapped(err1).chain # <<>>
             THEN Match(Wrapped(err1), Wrapped(err2))
             ELSE ~(\/ Wrapped(err2) = NoErr
                    \/ ErrorText(Wrapped(err2)) # ErrorText(Wrapped(err1)))

\* A call errors.Match(got, want) as the tests of the stores make it: the
\* error built as its first argument and the expected error as its second.
MatchCall(wants) ==
    /\ built.depth > 0
    /\ built.matched = "none"
    /\ \E want \in wants :
          built' = [built EXCEPT !.other = want,
                                 !.matched = IF Match(built.err, want)
                                             THEN "yes" ELSE "no"]
    /\ UNCHANGED <<events, dests, now, call, userRows, sub, access, classified,
                   conc, nap, heap, wire>>

\* An errStatus that knows no kind: a plain error's status for every error.
errStatusOpaque(err) == IF err = ContextCanceled THEN 400 ELSE 500

\* errStatus of package errors: the HTTP status of an error.  A plain
\* error is context.Canceled (400) or any other (500).
errStatus(err) ==
    IF err = ContextCanceled THEN 400
    ELSE IF err.chain = <<>> THEN 500
    ELSE CASE KindOf(err) = Other -> 500
           [] KindOf(err) = Invalid -> 400
           [] KindOf(err) = NotLoggedIn -> 401
           [] KindOf(err) = Permission -> 403
           [] KindOf(err) = NotExist -> 404
           [] KindOf(err) = Exist -> 409
           [] KindOf(err) = Internal -> 500
           [] OTHER -> 500

\* The string of the pieces written one after the other.
RECURSIVE Join(_)
Join(pieces) == IF pieces = <<>> THEN "" ELSE Head(pieces) \o Join(Tail(pieces))

\* http.StatusText
StatusText(status) ==
    CASE status = 200 -> "OK"
      [] status = 400 -> "Bad Request"
      [] status = 401 -> "Unauthorized"
      [] status = 403 -> "Forbidden"
      [] status = 404 -> "Not Found"
      [] status = 409 -> "Conflict"
      [] status = 500 -> "Internal Server Error"
      [] status = 502 -> "Bad Gateway"
      [] OTHER -> ""

\* errText of package errors
errText(err) ==
    IF err.chain # <<>> /\ KindOf(err) = Permission
    THEN "access to this endpoint is restricted. contact max@findrandomevents.com for more information."
    ELSE IF err.chain # <<>> /\ KindOf(err) = NotLoggedIn
    THEN "not logged in: please authenticate with firebase and send the token as an Authorization header"
    ELSE IF err.chain # <<>> /\ KindOf(err) = Invalid
    THEN Join(ErrorText(err))
    ELSE StatusText(errStatus(err))

\* errors.ResponseForError
ResponseForError(err) == [error |-> errText(err), status |-> errStatus(err)]

\* errors.Errorf("status %d: %s", status, text)
Errorf(status, text) == Str(Join(<<"status ", ToString(status), ": ", text>>))

\* A ToError that knows no status but 200.
ToErrorOpaque(resp) ==
    IF resp.status = 200 THEN NoErr ELSE Errorf(resp.status, resp.error)

\* Response.ToError
ToError(resp) ==
    CASE resp.status = 200 -> NoErr
      [] resp.status = 401 -> E("", NotLoggedIn, "", Str(resp.error))
      [] resp.status = 403 -> E("", Permission, "", Str(resp.error))
      [] resp.status = 400 -> E("", Invalid, "", Str(resp.error))
      [] resp.status = 409 -> E("", Exist, "", Str(resp.error))
      [] resp.status = 404 -> E("", NotExist, "", Str(resp.error))
      [] OTHER -> Errorf(resp.status, resp.error)

----------------------------------------------------------------------------
(* service: DestGet, DestUpdate and DestList                               *)

\* The zero eventdb.Dest.
ZeroDest == [id |-> 0, userID |-> "", eventID |-> 0, feedback |-> "", status |-> ""]

\* No update: the zero eventdb.DestUpdate.  Mask is the list of names that
\* strings.Split(update.Mask, ",") gives.
ZeroUpdate == [feedback |-> "", status |-> "", mask |-> <<"">>]

\* DestStore.Get: [dest, err]
DestStoreGet(tbl, id) ==
    IF id \in DOMAIN tbl
    THEN [dest |-> tbl[id], err |-> NoErr]
    ELSE [dest |-> ZeroDest, err |-> E("", NotExist, "", Str("dest not found"))]

\* The columns DestStore.Update sets: the names of the mask it knows.
UpdateFields(mask) ==
    {f \in {"feedback", "status"} : \E n \in DOMAIN mask : mask[n] = f}

\* The UPDATE of an update that sets no column: not a statement.
UpdateSyntaxErr == Str("pq: syntax error")

\* The UPDATE of DestStore.Update writing every column of the row but id.
UpdateEveryField(tbl, id, update) ==
    [i \in DOMAIN tbl |->
        IF tbl[i].id = id
        THEN [tbl[i] EXCEPT !.feedback = update.feedback, !.status = update.status,
                            !.userID = "", !.eventID = 0]
        ELSE tbl[i]]

\* The UPDATE of DestStore.Update: UPDATE dests SET <fields> WHERE id = $1
UpdateRows(tbl, id, update) ==
    [i \in DOMAIN tbl |->
        IF tbl[i].id = id
        THEN [f \in DOMAIN tbl[i] |->
                 IF f \in UpdateFields(update.mask) THEN update[f] ELSE tbl[i][f]]
        ELSE tbl[i]]

\* What a DestGet or DestUpdate call did: the table after it, the Dest and
\* the error it returned, the event side-loaded (0: none), the failed
\* store call.
Accessed(tbl, dest, event, err, failed) ==
    [dests |-> tbl, dest |-> dest, event |-> event, err |-> err, failed |-> failed]

\* A DestGet that does not check who is asking.
DestGetUnchecked(tbl, actor, id, fault) ==
    IF id \in DOMAIN tbl
    THEN Accessed(tbl, tbl[id], GetByID(events, tbl[id].eventID).event.id,
                  NoErr, NoFault)
    ELSE Accessed(tbl, ZeroDest, 0,
                  E("Service.DestGet", Other, "", DestStoreGet(tbl, id).err),
                  NoFault)

\* Service.DestGet for the caller actor.  currentUser.ID is a string, so
\* errors.E records it as the error text, not as the user.
DestGet(tbl, actor, id, fault) ==
    LET got == DestStoreGet(tbl, id)
    IN  IF fault.at = "DestStoreGet"
        THEN Accessed(tbl, ZeroDest, 0,
                      E("Service.DestGet", Other, "", DestListErr), fault)
        ELSE IF got.err # NoErr
        THEN Accessed(tbl, ZeroDest, 0,
                      E("Service.DestGet", Other, "", got.err), NoFault)
        ELSE IF ~actor.isAdmin /\ actor.id # got.dest.userID
        THEN Accessed(tbl, got.dest, 0,
                      E("Service.DestGet", Permission, "", Str(actor.id)), NoFault)
        ELSE IF fault.at = "GetByID"
        THEN Accessed(tbl, got.dest, 0, NoErr, fault)
        ELSE Accessed(tbl, got.dest, GetByID(events, got.dest.eventID).event.id,
                      NoErr, NoFault)

\* Service.DestUpdate for the caller actor.
DestUpdate(tbl, actor, id, update, fault) ==
    LET got == DestStoreGet(tbl, id)
        updated == UpdateRows(tbl, id, update)
    IN  IF fault.at = "DestStoreGet"
        THEN Accessed(tbl, ZeroDest, 0, DestListErr, fault)
        ELSE IF got.err # NoErr
        THEN Accessed(tbl, ZeroDest, 0, got.err, NoFault)
        ELSE IF ~actor.isAdmin /\ actor.id # got.dest.userID
        THEN Accessed(tbl, got.dest, 0,
                      E("Service.DestUpdate", Permission, "", Str(actor.id)),
                      NoFault)
        ELSE IF UpdateFields(update.mask) = {}
        THEN Accessed(tbl, ZeroDest, 0,
                      E("Service.DestUpdate", Other, "", UpdateSyntaxErr), NoFault)
        ELSE IF fault.at = "DestUpdateExec"
        THEN Accessed(tbl, ZeroDest, 0,
                      E("Service.DestUpdate", Other, "", DriverErr), fault)
        ELSE IF fault.at = "DestUpdateGet"
        THEN Accessed(updated, ZeroDest, 0,
                      E("Service.DestUpdate", Other, "", DestListErr), fault)
        ELSE Accessed(updated, DestStoreGet(updated, id).dest, 0, NoErr, NoFault)

\* handleJSON: the Dest written to the client, none when the call failed.
Replied(dest, err) == IF err = NoErr THEN dest ELSE ZeroDest

\* The store calls of DestGet, of DestUpdate and of DestList that can fail.
GetFaults == {[at |-> p, k |-> 0] : p \in {"DestStoreGet", "GetByID"}}
UpdateFaults ==
    {[at |-> p, k |-> 0] : p \in {"DestStoreGet", "DestUpdateExec", "DestUpdateGet"}}
ListFaults == {[at |-> p, k |-> 0] : p \in {"DestListForUser", "GetMulti"}}

\* No DestGet, DestUpdate or DestList call has been made.
NoAccess ==
    [op |-> "none", actor |-> [id |-> "", isAdmin |-> FALSE], id |-> 0,
     update |-> ZeroUpdate, page |-> 0, dest |-> ZeroDest, event |-> 0,
     listed |-> <<>>, listedEvents |-> <<>>, err |-> NoErr, failed |-> NoFault]

\* A call of Service.DestGet.
CallDestGet(actors, ids, faults) ==
    /\ \E actor \in actors, id \in ids, fault \in faults \cup {NoFault} :
          \E a \in {DestGet(dests, actor, id, fault)} :
              /\ a.failed = fault
              /\ dests' = a.dests
              /\ access' = [NoAccess EXCEPT !.op = "DestGet", !.actor = actor,
                                            !.id = id, !.dest = a.dest,
                                            !.event = a.event, !.err = a.err,
                                            !.failed = a.failed]
    /\ UNCHANGED <<events, now, call, userRows, sub, built, classified,
                   conc, nap, heap, wire>>

\* A call of Service.DestUpdate.
CallDestUpdate(actors, ids, updates, faults) ==
    /\ \E actor \in actors, id \in ids, update \in updates,
          fault \in faults \cup {NoFault} :
          \E a \in {DestUpdate(dests, actor, id, update, fault)} :
              /\ a.failed = fault
              /\ dests' = a.dests
              /\ access' = [NoAccess EXCEPT !.op = "DestUpdate", !.actor = actor,
                                            !.id = id, !.update = update,
                                            !.dest = a.dest, !.err = a.err,
                                            !.failed = a.failed]
    /\ UNCHANGED <<events, now, call, userRows, sub, built, classified,
                   conc, nap, heap, wire>>

\* A call of Service.DestList.
CallDestList(actors, pages, faults) ==
    /\ \E actor \in actors, page \in pages, fault \in faults \cup {NoFault} :
          \E a \in {DestList(dests, actor.id, page, fault)} :
              /\ a.failed = fault
              /\ access' = [NoAccess EXCEPT !.op = "DestList", !.actor = actor,
                                            !.page = page, !.listed = a.dests,
                                            !.listedEvents = a.events,
                                            !.err = a.err, !.failed = a.failed]
    /\ UNCHANGED <<events, dests, now, call, userRows, sub, built, classified,
                   conc, nap, heap, wire>>

----------------------------------------------------------------------------
(* eventdb.IsBadEvent on its own                                           *)

\* No IsBadEvent call has been made.
NoClassified == [n |-> 0, name |-> <<>>, description |-> <<>>, bad |-> FALSE]

\* A call of IsBadEvent on an event of the given name and description.
Classify(names, descriptions, maxCalls) ==
    /\ classified.n < maxCalls
    /\ \E name \in names, description \in descriptions :
          classified' = [n |-> classified.n + 1, name |-> name,
                         description |-> description,
                         bad |-> IsBadEvent([name |-> name,
                                             description |-> description])]
    /\ UNCHANGED <<events, dests, now, call, userRows, sub, built, access,
                   conc, nap, heap, wire>>

----------------------------------------------------------------------------
(* Calls running side by side                                              *)

\* The DestGenerate calls that run side by side, numbered in the order in
\* which they start.
Procs == 1..NumProcs

\* A DestGenerate call that has not started.  pc is its place: "idle",
\* "create" (nextEvent has returned an event, DestStore.Create is next),
\* "list" (DestList is next), "done".  read is the history nextEvent
\* listed, chosen the row of the chosen event as nextEvent's query found it,
\* c the record of the call.
IdleGen ==
    [pc |-> "idle", read |-> <<>>, chosen |-> <<>>,
     c |-> [CallRecord([id |-> "", isAdmin |-> FALSE], "", 0) EXCEPT
               !.at = 0, !.before = 0, !.result = "none"]]

\* An EventSubmit call that has not started.  pc is its place: "idle",
\* "save" (EventStore.Save of body j is next), "flag" (EventStore.SetBad of
\* the event Save read back is next), "done".
IdleIngest ==
    [pc |-> "idle", bodies |-> <<>>, j |-> 0,
     event |-> [id |-> 0, startTime |-> 0, endTime |-> 0, isBad |-> FALSE,
                name |-> <<>>, description |-> <<>>]]

\* No call is running.
NoConc == [gen |-> [p \in Procs |-> IdleGen], ingest |-> IdleIngest]

\* DestGenerate of call p up to the return of nextEvent: the permission
\* checks, then nextEvent reads the history and the events and chooses.
GenNext(p, actors, users, locs) ==
    /\ conc.gen[p].pc = "idle"
    /\ \A q \in Procs : q < p => conc.gen[q].pc # "idle"
    /\ \E actor \in actors, reqUser \in users, loc \in locs :
          \E au \in {authorize(actor, reqUser)} :
              IF ~au.ok
              THEN conc' = [conc EXCEPT !.gen[p] =
                               [IdleGen EXCEPT !.pc = "done",
                                               !.c = denied(actor, reqUser, loc)]]
              ELSE \E ne \in {nextEvent(au.userID, loc, NoFault)} :
                   \E n \in (IF Len(ne.good) = 0 THEN {1} ELSE 1..Len(ne.good)) :
                   \E c \in {[CallRecord(actor, reqUser, loc) EXCEPT
                                  !.userID = au.userID, !.result = ne.result,
                                  !.queries = ne.queries,
                                  !.returned = ne.returned]} :
                       conc' = [conc EXCEPT !.gen[p] =
                           IF ne.err # NoErr
                           THEN [IdleGen EXCEPT !.pc = "done",
                                    !.read = ListForUser(dests, au.userID, 0),
                                    !.c = [c EXCEPT !.err =
                                              E("Service.DestGenerate", Internal,
                                                "", ne.err)]]
                           ELSE IF ne.result = GenerateOK
                           THEN [pc |-> "create",
                                 read |-> ListForUser(dests, au.userID, 0),
                                 chosen |-> <<events[ne.good[n].id]>>,
                                 c |-> [c EXCEPT !.chosenID = ne.good[n].id]]
                           ELSE [IdleGen EXCEPT !.pc = "list",
                                    !.read = ListForUser(dests, au.userID, 0),
                                    !.c = c]]
    /\ UNCHANGED <<events, dests, now, call, userRows, sub, built, access,
                   classified, nap, heap, wire>>

\* DestGenerate of call p: DestStore.Create of the chosen event.
GenCreate(p, maxDests) ==
    /\ conc.gen[p].pc = "create"
    /\ Len(dests) < maxDests
    /\ dests' = Create(dests, conc.gen[p].c.userID, conc.gen[p].c.chosenID)
    /\ conc' = [conc EXCEPT !.gen[p].pc = "list"]
    /\ UNCHANGED <<events, now, call, userRows, sub, built, access,
                   classified, nap, heap, wire>>

\* DestGenerate of call p: DestList of the caller's dests, and the reply.
GenList(p) ==
    /\ conc.gen[p].pc = "list"
    /\ conc' = [conc EXCEPT
                   !.gen[p].pc = "done",
                   !.gen[p].c = reply(conc.gen[p].c, dests,
                                      DestList(dests, conc.gen[p].c.actor.id, 0,
                                               NoFault)).call]
    /\ UNCHANGED <<events, dests, now, call, userRows, sub, built, access,
                   classified, nap, heap, wire>>

\* EventSubmit, an attempt whose fetch succeeds: the bodies the Graph API
\* returns for the ids of the request.
IngestFetch(requests, forms) ==
    /\ conc.ingest.pc = "idle"
    /\ \E ids \in requests :
          \E bodies \in Responses(ids, forms) :
              conc' = [conc EXCEPT !.ingest =
                          [IdleIngest EXCEPT !.pc = "save", !.bodies = bodies,
                                             !.j = 1]]
    /\ UNCHANGED <<events, dests, now, call, userRows, sub, built, access,
                   classified, nap, heap, wire>>

\* EventSubmit: EventStore.Save of body j, which reads the event back.
IngestSave ==
    /\ conc.ingest.pc = "save"
    /\ events' = Save(events, conc.ingest.bodies[conc.ingest.j])
    /\ conc' = [conc EXCEPT
                   !.ingest.pc = "flag",
                   !.ingest.event =
                       SavedEvent(events'[conc.ingest.bodies[conc.ingest.j].id])]
    /\ UNCHANGED <<dests, now, call, userRows, sub, built, access,
                   classified, nap, heap, wire>>

\* EventSubmit: EventStore.SetBad with IsBadEvent of the event read back;
\* then the next body, or the end of the attempt.
IngestFlag ==
    /\ conc.ingest.pc = "flag"
    /\ events' = SetBad(events, conc.ingest.event.id,
                        IsBadEvent(conc.ingest.event))
    /\ conc' = [conc EXCEPT
                   !.ingest.j = @ + 1,
                   !.ingest.pc = IF conc.ingest.j + 1 > Len(conc.ingest.bodies)
                                 THEN "done" ELSE "save"]
    /\ UNCHANGED <<dests, now, call, userRows, sub, built, access,
                   classified, nap, heap, wire>>

\* The *Error values in memory: objs[a] is the Error at address a, whose
\* field Err is nil (ref 0, text ""), a plain error (ref 0 and its text) or
\* the *Error at address ref.  calls: the errors.E calls made, each with
\* the address of its *Error argument (0: none), the Error at that address
\* and the error it stood for when the call began, the other arguments,
\* and the address returned.  None has been allocated, no call made.
NoHeap == [objs |-> <<>>, calls |-> <<>>]

\* The values of an error interface: nil, errors.Str(text), a *Error.
Nil == [ref |-> 0, text |-> ""]
Plain(text) == [ref |-> 0, text |-> text]
Ref(a) == [ref |-> a, text |-> ""]

\* The error an interface value stands for: the Error structs reached
\* through the Err fields, outermost first, and the plain error at the end.
RECURSIVE Deref(_, _)
Deref(objs, err) ==
    IF err.ref = 0 THEN Str(err.text)
    ELSE LET inner == Deref(objs, objs[err.ref].err)
         IN  [chain |-> <<[op |-> objs[err.ref].op, kind |-> objs[err.ref].kind,
                           user |-> objs[err.ref].userID]>> \o inner.chain,
              text |-> inner.text]

\* A case *Error that stores the argument itself in e.Err.
shareCause(objs, arg) == [objs |-> objs, prev |-> arg]

\* case *Error of errors.E: copy := *arg; e.Err = &copy.  prev: the address
\* stored in e.Err.
copyCause(objs, arg) ==
    [objs |-> Append(objs, objs[arg]), prev |-> Len(objs) + 1]

\* errors.E once e.Err holds a *Error: the duplications are suppressed in
\* the Error at prev and its kind pulled up into the Error at e.
suppress(objs, e, prev) ==
    LET user1 == IF objs[prev].userID = objs[e].userID THEN ""
                 ELSE objs[prev].userID
        kind1 == IF objs[prev].kind = objs[e].kind THEN Other
                 ELSE objs[prev].kind
    IN  IF objs[e].kind = Other
        THEN [objs EXCEPT ![prev].userID = user1, ![prev].kind = Other,
                          ![e].kind = kind1]
        ELSE [objs EXCEPT ![prev].userID = user1, ![prev].kind = kind1]

\* errors.E(userID, op, kind, cause) on the memory objs: e := &Error{} with
\* the fields given, the argument copied when it is a *Error, and the
\* duplications suppressed.  [objs, result]
EAt(objs, userID, op, kind, cause) ==
    LET e == Len(objs) + 1
        objs1 == Append(objs, [userID |-> userID, op |-> op, kind |-> kind,
                               err |-> cause])
    IN  IF cause.ref = 0 THEN [objs |-> objs1, result |-> e]
        ELSE LET stored == copyCause(objs1, cause.ref)
                 objs2 == [stored.objs EXCEPT ![e].err = Ref(stored.prev)]
             IN  [objs |-> suppress(objs2, e, stored.prev), result |-> e]

\* A call of errors.E: its error argument is nil, a plain error, or any
\* *Error in memory.
CallE(userIDs, ops, kinds, texts, maxObjs) ==
    /\ Len(heap.objs) + 2 <= maxObjs
    /\ \E userID \in userIDs, op \in ops, kind \in kinds :
          \E cause \in {Nil} \cup {Plain(text) : text \in texts}
                        \cup {Ref(a) : a \in DOMAIN heap.objs} :
              \E made \in {EAt(heap.objs, userID, op, kind, cause)} :
                  heap' = [objs |-> made.objs,
                           calls |-> Append(heap.calls,
                               [arg |-> cause.ref,
                                before |-> IF cause.ref = 0 THEN Nil
                                           ELSE heap.objs[cause.ref],
                                cause |-> Deref(heap.objs, cause),
                                userID |-> userID, op |-> op, kind |-> kind,
                                result |-> made.result])]
    /\ UNCHANGED <<events, dests, now, call, userRows, sub, built, access,
                   classified, conc, nap, wire>>

\* The error a handler sent as an errors.Response and the error the client
\* made of it: nothing has been sent.
NoWire ==
    [pc |-> "idle", sent |-> NoErr, resp |-> [error |-> "", status |-> 0],
     got |-> NoErr]

----------------------------------------------------------------------------
(* The clock                                                               *)

\* Service.Time.Now() moves on to a later reading.
Tick(times) ==
    /\ \E t \in times : t > now /\ now' = t
    /\ UNCHANGED <<events, dests, call, userRows, sub,
                   built, access, classified,
                   conc, nap, heap, wire>>

----------------------------------------------------------------------------
(* Initial states: the store as event submissions left it                  *)

\* A row of table events.
Row(id, startTime, endTime, pos, street, isBad) ==
    [id |-> id, startTime |-> startTime, endTime |-> endTime, pos |-> pos,
     street |-> street, isBad |-> isBad]

\* The rows an event id may hold when the clock reads 0.  Event 1 is near
\* the user, has an address and is not bad: it starts in an hour (as the
\* events of the end-to-end tests do), or is under way and ends in 30 or in
\* 20 minutes.  Event 2 is under way and not yet flagged, or flagged bad, or
\* 20 km away.  Event 3 starts after the second query's window, or has no
\* street address, or is ten hours long.
Catalogue(id) ==
    IF id = 1
    THEN {Row(id, 60, 240, 0, TRUE, "false"), Row(id, -60, 30, 0, TRUE, "false"),
          Row(id, -60, 20, 0, TRUE, "false")}
    ELSE IF id = 2
    THEN {Row(id, -30, 120, 0, TRUE, "null"), Row(id, 60, 240, 0, TRUE, "true"),
          Row(id, 60, 240, 20000, TRUE, "false")}
    ELSE {Row(id, 200, 300, 0, TRUE, "false"), Row(id, 60, 240, 0, FALSE, "false"),
          Row(id, 0, 600, 0, TRUE, "false")}

\* Tables events: one row of the catalogue for each event id.
Stores == {tbl \in [{1, 2, 3} -> UNION {Catalogue(i) : i \in {1, 2, 3}}] :
              \A i \in {1, 2, 3} : tbl[i] \in Catalogue(i)}

\* Readings of the clock.
Times == {0, 60}

Init ==
    /\ events \in Stores
    /\ dests = <<>>
    /\ now = 0
    /\ call = [actor |-> [id |-> "", isAdmin |-> FALSE], reqUser |-> "",
               loc |-> 0, at |-> 0, before |-> 0, userID |-> "",
               result |-> "none", err |-> NoErr, chosenID |-> 0,
               queries |-> <<>>, returned |-> {}, replyDests |-> <<>>,
               replyEvents |-> <<>>, storeOps |-> <<>>, failed |-> NoFault,
               panicked |-> FALSE]
    /\ userRows = <<>>
    /\ sub = NoSubmit
    /\ built = NoBuilt
    /\ access = NoAccess
    /\ classified = NoClassified
    /\ conc = NoConc
    /\ nap = NoNap
    /\ heap = NoHeap
    /\ wire = NoWire

Next ==
    \/ DestGenerate(Actors, RequestedUsers, Locations, Faults, MaxDests)
    \/ Tick(Times)

Spec == Init /\ [][Next]_vars

----------------------------------------------------------------------------
(* A second specification, for histories longer than one page: one user,   *)
(* no store failure, and a catalogue of events near the user that start    *)
(* 50 minutes apart; the first lasts just under ten hours, the others 45   *)
(* minutes each.                                                           *)

LongStore ==
    [i \in 1..NumEventsLong |->
        Row(i, 50 * (i - 1), 50 * (i - 1) + (IF i = 1 THEN maxDuration - 1 ELSE 45),
            0, TRUE, "false")]

TimesLong == {50 * i : i \in 0..(NumEventsLong - 1)}

InitLong ==
    /\ events = LongStore
    /\ dests = <<>>
    /\ now = 0
    /\ call = [actor |-> [id |-> "", isAdmin |-> FALSE], reqUser |-> "",
               loc |-> 0, at |-> 0, before |-> 0, userID |-> "",
               result |-> "none", err |-> NoErr, chosenID |-> 0,
               queries |-> <<>>, returned |-> {}, replyDests |-> <<>>,
               replyEvents |-> <<>>, storeOps |-> <<>>, failed |-> NoFault,
               panicked |-> FALSE]
    /\ userRows = <<>>
    /\ sub = NoSubmit
    /\ built = NoBuilt
    /\ access = NoAccess
    /\ classified = NoClassified
    /\ conc = NoConc
    /\ nap = NoNap
    /\ heap = NoHeap
    /\ wire = NoWire

NextLong ==
    \/ DestGenerate({[id |-> "", isAdmin |-> FALSE], [id |-> "user", isAdmin |-> FALSE]},
                    {"me"}, Locations, {NoFault}, MaxDestsLong)
    \/ Tick(TimesLong)

SpecLong == InitLong /\ [][NextLong]_vars

----------------------------------------------------------------------------
(* A third specification, for EventSubmit: one call at a time, its context *)
(* cancelled at any moment, the Graph API answering as it likes, store     *)
(* calls failing.                                                          *)

\* A body of the Graph API for an event: it is near the user, has an
\* address, and runs as the events of the end-to-end tests do.
Body(id, name, description) ==
    [id |-> id, name |-> name, description |-> description,
     startTime |-> 60, endTime |-> 240, pos |-> 0, street |-> TRUE]

\* The forms in which the Graph API may return events 1 and 2.
Forms ==
    {Body(1, <<"jazz", "night">>, <<"free", "entry">>),
     Body(1, <<"sold", "out", "jazz", "night">>, <<"free", "entry">>),
     Body(2, <<"barbecue">>, <<"bring", "friends">>),
     Body(2, <<"barbecue">>, <<"please", "rsvp">>)}

\* Tables events before the call: empty, or holding event 1 as an earlier
\* submission of its sold-out form left it.
SubmitStores ==
    {<<>>,
     SetBad(Save(<<>>, Body(1, <<"sold", "out", "jazz", "night">>,
                            <<"free", "entry">>)), 1, TRUE)}

\* Tables users before the call: each of the two users holds a token or not.
UserTables ==
    {[u \in {"user", "admin"} |->
         [facebookToken |-> IF u \in holders THEN "token" ELSE "",
          facebookID |-> "fb"]] : holders \in SUBSET {"user", "admin"}}

\* EventSubmitRequest.EventIDs: one id, two ids, the most allowed, one more.
Requests ==
    {<<1>>, <<1, 2>>, [n \in 1..maxEventIDs |-> 1], [n \in 1..(maxEventIDs + 1) |-> 1]}

InitSubmit ==
    /\ events \in SubmitStores
    /\ userRows \in UserTables
    /\ dests = <<>>
    /\ now = 0
    /\ call = [CallRecord([id |-> "", isAdmin |-> FALSE], "", 0) EXCEPT
                  !.result = "none"]
    /\ sub = NoSubmit
    /\ built = NoBuilt
    /\ access = NoAccess
    /\ classified = NoClassified
    /\ conc = NoConc
    /\ nap = NoNap
    /\ heap = NoHeap
    /\ wire = NoWire

NextSubmit ==
    \/ EventSubmit({"", "user"}, Requests, MaxSubmits)
    \/ Attempt(SubmitFaults, Forms)
    \/ Sleep({NoJitter})
    \/ Cancel

SpecSubmit == InitSubmit /\ [][NextSubmit]_vars

----------------------------------------------------------------------------
(* A fourth specification, for package errors: chains of *Error built by   *)
(* nested errors.E calls over no error or a plain error.                   *)

InitErr ==
    /\ events = <<>>
    /\ userRows = <<>>
    /\ dests = <<>>
    /\ now = 0
    /\ call = [CallRecord([id |-> "", isAdmin |-> FALSE], "", 0) EXCEPT
                  !.result = "none"]
    /\ sub = NoSubmit
    /\ built \in {[NoBuilt EXCEPT !.leaf = leaf] : leaf \in ErrLeaves}
    /\ access = NoAccess
    /\ classified = NoClassified
    /\ conc = NoConc
    /\ nap = NoNap
    /\ heap = NoHeap
    /\ wire = NoWire

NextErr == Construct(ErrOps, ErrKinds, ErrUsers, MaxChain)

SpecErr == InitErr /\ [][NextErr]_vars

\* The users, the operation and the kinds the errors.E calls of SpecHeap are
\* given.
HeapUsers == {"", "user"}
HeapOps == {"Service.DestGet"}
HeapKinds == {Other, Permission, NotExist}

\* errors.E calls over *Error values that stay reachable: a call may wrap
\* any *Error built before, more than once.
NextHeap == CallE(HeapUsers, HeapOps, HeapKinds, {"dest not found"}, MaxObjects)

SpecHeap == InitErr /\ [][NextHeap]_vars

\* handleJSON when the function it runs returned an error: the error the
\* errors.E calls built, or a plain one.  The response is written with
\* its status; an admin is shown the full error after the text.
Respond(plains, admins) ==
    /\ wire.pc = "idle"
    /\ \E err \in (IF built.depth > 0 THEN {built.err} ELSE plains) :
          \E isAdmin \in admins :
              \E resp \in {ResponseForError(err)} :
                  wire' = [pc |-> "sent", sent |-> err,
                           resp |-> IF isAdmin
                                    THEN [resp EXCEPT !.error =
                                            Join(<<@, ": ", Join(ErrorText(err))>>)]
                                    ELSE resp,
                           got |-> NoErr]
    /\ UNCHANGED <<events, dests, now, call, userRows, sub, built, access,
                   classified, conc, nap, heap>>

\* Client.doJSON when the status of the reply is not 200: the body is
\* decoded into an errors.Response and its ToError returned.
Receive ==
    /\ wire.pc = "sent"
    /\ wire' = [wire EXCEPT !.pc = "got", !.got = ToError(wire.resp)]
    /\ UNCHANGED <<events, dests, now, call, userRows, sub, built, access,
                   classified, conc, nap, heap>>

\* ToError of an errors.Response that some other server wrote.
Decode(statuses, texts) ==
    /\ wire.pc = "idle"
    /\ built.depth = 0
    /\ \E status \in statuses, text \in texts :
          \E resp \in {[error |-> text, status |-> status]} :
              wire' = [pc |-> "decoded", sent |-> NoErr, resp |-> resp,
                       got |-> ToError(resp)]
    /\ UNCHANGED <<events, dests, now, call, userRows, sub, built, access,
                   classified, conc, nap, heap>>

\* The statuses and texts of the responses of Decode.
Statuses == {200, 400, 401, 403, 404, 409, 500, 502}
StatusTexts == {"", "OK", "dest not found"}

\* Errors are built by errors.E calls, nested up to MaxWireChain deep, and
\* then sent to the client and turned back into an error.
NextWire ==
    \/ wire.pc = "idle" /\ Construct(ErrOps, ErrKinds, ErrUsers, MaxWireChain)
    \/ Respond({Str("dest not found"), ContextCanceled}, BOOLEAN)
    \/ Receive
    \/ Decode(Statuses, StatusTexts)

SpecWire == InitErr /\ [][NextWire]_vars

----------------------------------------------------------------------------
(* A specification for DestGet, DestUpdate and DestList: the table dests   *)
(* is empty or holds the rows that earlier DestGenerate calls of two users *)
(* created, the first and then every fourth row being the stranger's;      *)
(* event 3 has left the table events.                                      *)

DestHistory(n) ==
    [i \in 1..n |->
        [id |-> i, userID |-> (IF i % 4 = 1 THEN "stranger" ELSE "user"),
         eventID |-> ((i - 1) % 3) + 1, feedback |-> "", status |-> ""]]

DestEvents == [i \in {1, 2} |-> Row(i, 60 * i, 60 * i + 45, 0, TRUE, "false")]

\* The callers: anonymous, the two users, an admin.
AccessActors ==
    {[id |-> "", isAdmin |-> FALSE], [id |-> "user", isAdmin |-> FALSE],
     [id |-> "stranger", isAdmin |-> FALSE], [id |-> "admin", isAdmin |-> TRUE]}

\* The ids asked for: the first Dest (the stranger's in the longer table,
\* the user's when a DestGenerate call created it) and one that does not
\* exist.
AccessIDs == {1, MaxHistory + 1}

\* DestUpdate values: new feedback and status under each mask, and an
\* update that clears both.
Updates ==
    {[feedback |-> "great", status |-> "went", mask |-> mask] :
        mask \in {<<"">>, <<"feedback">>, <<"status">>, <<"feedback", "status">>,
                  <<"userID">>}}
    \cup {[feedback |-> "", status |-> "", mask |-> <<"feedback", "status">>]}

\* DestListRequest.Page
Pages == {0, 1, 2}

InitDest ==
    /\ events = DestEvents
    /\ userRows = <<>>
    /\ dests \in {DestHistory(0), DestHistory(MaxHistory)}
    /\ now = 0
    /\ call = [CallRecord([id |-> "", isAdmin |-> FALSE], "", 0) EXCEPT
                  !.result = "none"]
    /\ sub = NoSubmit
    /\ built = NoBuilt
    /\ access = NoAccess
    /\ classified = NoClassified
    /\ conc = NoConc
    /\ nap = NoNap
    /\ heap = NoHeap
    /\ wire = NoWire

NextDest ==
    \/ DestGenerate({[id |-> "", isAdmin |-> FALSE], [id |-> "user", isAdmin |-> FALSE]},
                    {"me"}, Locations, {NoFault}, MaxDests)
    \/ CallDestGet(AccessActors, AccessIDs, GetFaults)
    \/ CallDestUpdate(AccessActors, AccessIDs, Updates, UpdateFaults)
    \/ CallDestList(AccessActors, Pages, ListFaults)

SpecDest == InitDest /\ [][NextDest]_vars

----------------------------------------------------------------------------
(* A specification for IsBadEvent on its own: events whose names and       *)
(* descriptions hold what the filters look for, in the right field and in  *)
(* the wrong one, and prices in currencies of several countries.           *)

EventNames ==
    {<<"jazz", "night">>, <<"sold", "out", "jazz", "night">>, <<"out", "sold">>,
     <<"barbecue">>, <<"wine", "bar">>, <<"funeral">>, <<"rsvp">>,
     <<"jazz", "$", "5">>, <<"support", "group">>, <<"annulliert">>}

EventDescriptions ==
    {<<>>, <<"free", "entry">>, <<"please", "rsvp">>, <<"entry", "$", "5">>,
     <<"entry", "€", "5">>, <<"entry", "₪", "20">>, <<"entry", "₺", "20">>,
     <<"entry", "Rs", "20">>, <<"after", "the", "funeral">>, <<"sold", "out">>,
     <<"support", "group">>, <<"women", "only">>}

InitBad ==
    /\ events = <<>>
    /\ userRows = <<>>
    /\ dests = <<>>
    /\ now = 0
    /\ call = [CallRecord([id |-> "", isAdmin |-> FALSE], "", 0) EXCEPT
                  !.result = "none"]
    /\ sub = NoSubmit
    /\ built = NoBuilt
    /\ access = NoAccess
    /\ classified = NoClassified
    /\ conc = NoConc
    /\ nap = NoNap
    /\ heap = NoHeap
    /\ wire = NoWire

NextBad == Classify(EventNames, EventDescriptions, MaxClassify)

SpecBad == InitBad /\ [][NextBad]_vars

----------------------------------------------------------------------------
(* A fifth specification, for errors.Match: an error built by errors.E     *)
(* calls is matched with an expected error built the same way.             *)

MatchKinds == {Other, NotExist, Permission}
MatchOps == {"", "EventStore.GetByID"}
MatchUsers == {"", "user"}

\* The expected errors: built by one errors.E call, or by two.
Wants ==
    LET One(causes) == {E(op, kind, user, cause) :
                           op \in MatchOps, kind \in MatchKinds,
                           user \in MatchUsers, cause \in causes}
    IN  One(ErrLeaves) \cup One(One(ErrLeaves))

NextMatch ==
    \/ Construct(MatchOps, MatchKinds, MatchUsers, MaxMatchChain)
    \/ MatchCall(Wants)

SpecMatch == InitErr /\ [][NextMatch]_vars

----------------------------------------------------------------------------
(* A specification for the rotation of credentials: EventSubmit called by  *)
(* a user for one event, no store call failing and the context never       *)
(* cancelled; each row of table users holds no token, a token in good      *)
(* standing, or a token the Graph API has expired.                         *)

CredentialNames == <<"user", "admin", "stranger", "guest", "visitor", "member">>

Credentials == {CredentialNames[i] : i \in 1..NumCredentials}

RotateTables ==
    [Credentials -> {[facebookToken |-> token, facebookID |-> "fb"] :
                        token \in {"", "valid", "stale"}}]

InitRotate ==
    /\ events = <<>>
    /\ userRows \in RotateTables
    /\ dests = <<>>
    /\ now = 0
    /\ call = [CallRecord([id |-> "", isAdmin |-> FALSE], "", 0) EXCEPT
                  !.result = "none"]
    /\ sub = NoSubmit
    /\ built = NoBuilt
    /\ access = NoAccess
    /\ classified = NoClassified
    /\ conc = NoConc
    /\ nap = NoNap
    /\ heap = NoHeap
    /\ wire = NoWire

NextRotate ==
    \/ EventSubmit({"user"}, {<<1>>}, MaxSubmits)
    \/ Attempt({}, Forms)
    \/ Sleep({NoJitter})

SpecRotate == InitRotate /\ [][NextRotate]_vars

\* The call goes on: the goroutine that runs retry is scheduled, and
\* time.Sleep returns.
SpecRotateFair ==
    SpecRotate /\ WF_vars(Attempt({}, Forms)) /\ WF_vars(Sleep({NoJitter}))

\* EventSubmit with the tokens of SpecRotate, retry drawing its jitter from
\* Jitters.
NextBackoff ==
    \/ EventSubmit({"user"}, {<<1>>}, MaxSubmits)
    \/ Attempt({}, Forms)
    \/ Sleep(Jitters)

SpecBackoff == InitRotate /\ [][NextBackoff]_vars

----------------------------------------------------------------------------
(* A specification for calls that run side by side: two DestGenerate calls *)
(* and one EventSubmit call take their steps, a store call at a time for   *)
(* the writes, in any order.  Event 3 is under way and was submitted       *)
(* earlier, event 1 was submitted earlier in its good form or not at all,  *)
(* and the user has been sent to event 3 or nowhere yet.                   *)

\* The event under way: it began half an hour ago.
UnderWay ==
    [Body(3, <<"street", "party">>, <<"bring", "friends">>) EXCEPT
        !.startTime = -30, !.endTime = 120]

ParStores ==
    {SetBad(Save(<<>>, UnderWay), 3, FALSE),
     SetBad(Save(SetBad(Save(<<>>, UnderWay), 3, FALSE),
                 Body(1, <<"jazz", "night">>, <<"free", "entry">>)), 1, FALSE)}

ParHistories == {<<>>, Create(<<>>, "user", 3)}

\* The callers of DestGenerate: the two users.
ParActors ==
    {[id |-> "user", isAdmin |-> FALSE], [id |-> "stranger", isAdmin |-> FALSE]}

InitPar ==
    /\ events \in ParStores
    /\ userRows = <<>>
    /\ dests \in ParHistories
    /\ now = 0
    /\ call = [CallRecord([id |-> "", isAdmin |-> FALSE], "", 0) EXCEPT
                  !.result = "none"]
    /\ sub = NoSubmit
    /\ built = NoBuilt
    /\ access = NoAccess
    /\ classified = NoClassified
    /\ conc = NoConc
    /\ nap = NoNap
    /\ heap = NoHeap
    /\ wire = NoWire

NextPar ==
    \/ \E p \in Procs : GenNext(p, ParActors, {"me", "user"}, Locations)
    \/ \E p \in Procs : GenCreate(p, MaxParDests)
    \/ \E p \in Procs : GenList(p)
    \/ IngestFetch({<<1>>, <<1, 2>>}, Forms)
    \/ IngestSave
    \/ IngestFlag

SpecPar == InitPar /\ [][NextPar]_vars

\* The calls of one user: two DestGenerate calls and an EventSubmit call
\* for events 1 and 2 side by side, and DestList and DestUpdate calls
\* between their steps.
StoreActors == {[id |-> "user", isAdmin |-> FALSE]}

StoreUpdates == {[feedback |-> "great", status |-> "went", mask |-> <<"status">>]}

NextStore ==
    \/ \E p \in Procs : GenNext(p, StoreActors, {"me"}, Locations)
    \/ \E p \in Procs : GenCreate(p, MaxParDests)
    \/ \E p \in Procs : GenList(p)
    \/ IngestFetch({<<1, 2>>}, Forms)
    \/ IngestSave
    \/ IngestFlag
    \/ CallDestList(StoreActors, {0}, {})
    \/ CallDestUpdate(StoreActors, {1}, StoreUpdates, {})

SpecStore == InitPar /\ [][NextStore]_vars

----------------------------------------------------------------------------
(* What the last call of DestGenerate did, read from its record            *)

\* A call has been made.
Called == call.result # "none"

\* The call returned (reply, nil) with Result GenerateOK.
ReturnedOK ==
    /\ Called
    /\ call.err = NoErr
    /\ ~call.panicked
    /\ call.result = GenerateOK

\* The caller passed both permission checks of DestGenerate.
Authorized ==
    /\ call.actor.id # ""
    /\ \/ call.userID = call.actor.id
       \/ call.actor.isAdmin

\* The rows of table dests that the call's user had when the call began,
\* oldest first (rows are only ever appended).
HistoryBefore ==
    SelectSeq(SubSeq(dests, 1, call.before), LAMBDA d : d.userID = call.userID)

\* The event of the most recent of those rows has not started at the time
\* of the call.
LastUnstartedBefore ==
    /\ Len(HistoryBefore) > 0
    /\ events[HistoryBefore[Len(HistoryBefore)].eventID].startTime > call.at

\* The call's reads of the history and of its last event did not fail.
HistoryRead == call.failed.at \notin {"ListForUser", "GetByID"}

----------------------------------------------------------------------------
(* Claims about DestGenerate                                               *)

\* C1 - Dedup: when DestGenerate returns OK, the chosen event is not the
\* event of any Destination the user had before the call, however long
\* that history is.
C1_Dedup ==
    ReturnedOK =>
        \A n \in 1..Len(HistoryBefore) : HistoryBefore[n].eventID # call.chosenID

\* C2 - Feasibility: when DestGenerate returns OK, the chosen event ends
\* strictly later than 30 minutes after the time of the call.
C2_Feasible ==
    ReturnedOK => events[call.chosenID].endTime > call.at + arriveDelay

\* C3 - WAIT: a call for a user whose most recent Destination is of an
\* event that has not started issues no search query and creates no
\* Destination, and its result is WAIT when the call is authorized and
\* reads the history (without error when no store call fails); a call for
\* a user whose most recent Destination is of an event that has started (or
\* who has none) does not result in WAIT.
C3_Wait ==
    Called =>
        /\ LastUnstartedBefore =>
              /\ call.queries = <<>>
              /\ Len(dests) = call.before
              /\ (Authorized /\ HistoryRead) =>
                    /\ call.result = GenerateWait
                    /\ call.failed = NoFault => call.err = NoErr
        /\ ~LastUnstartedBefore => call.result # GenerateWait

\* A call that went through the WAIT branch.
C3_Witness ==
    /\ Called /\ Authorized /\ HistoryRead
    /\ LastUnstartedBefore
    /\ call.result = GenerateWait

\* C4 - Frame: a row of table dests is created only by a call that returns
\* OK without error; any other call leaves the table as it was.
C4_Frame ==
    Len(dests) # call.before => ReturnedOK

\* The events that match the search criteria of the call within 48 hours
\* of its time: near the user's location, with an address, shorter than
\* ten hours, not flagged bad, not in the user's history, and ending later
\* than 30 minutes after the call.
MatchingBefore ==
    {i \in doSearch(events, call.loc, call.at, call.at + searchHorizon, FALSE) :
        /\ \A n \in 1..Len(HistoryBefore) : HistoryBefore[n].eventID # i
        /\ events[i].endTime > call.at + arriveDelay}

\* C5 - NO_RESULTS: an authorized call in which no store call fails, for a
\* user whose last Destination's event is not unstarted, results in
\* NO_RESULTS and creates no Destination when no event matches the search
\* criteria within 48 hours.
C5_NoResults ==
    (/\ Called /\ Authorized /\ call.failed = NoFault
     /\ ~LastUnstartedBefore
     /\ MatchingBefore = {})
    => (call.result = GenerateNoResults /\ Len(dests) = call.before)

\* A step that is a second call of DestGenerate for the same user and
\* location, made right after a call that returned OK, the clock unchanged,
\* by a caller who passes the permission checks, the reads of the history
\* succeeding.
RepeatCall ==
    /\ ReturnedOK
    /\ call.at = now
    /\ now' = now
    /\ call' # call
    /\ call'.userID = call.userID
    /\ call'.loc = call.loc
    /\ Authorized'
    /\ HistoryRead'

\* C6 (as stated) - Repeat call: the second call results in WAIT and
\* creates no second Destination.
C6_Repeat ==
    [][RepeatCall => (call'.result = GenerateWait /\ dests' = dests)]_vars

\* C6 - Repeat call, when the event chosen by the first call starts later
\* than now: the second call results in WAIT and creates no second
\* Destination.
C6_RepeatUnstarted ==
    [][(RepeatCall /\ events[call.chosenID].startTime > call.at)
         => (call'.result = GenerateWait /\ dests' = dests)]_vars

\* The clock has not moved, one Destination exists, of an event that has
\* not started, and the call after the one that created it resulted in WAIT.
C6_Witness ==
    /\ now = 0
    /\ Len(dests) = 1
    /\ events[dests[1].eventID].startTime > now
    /\ Called /\ Authorized /\ HistoryRead
    /\ call.before = 1
    /\ call.userID = dests[1].userID
    /\ call.result = GenerateWait

\* C7 - OK postcondition: a call that returns OK has created exactly one
\* row of table dests, for the user the request resolves to and for the
\* chosen event, which one of the call's search queries returned.
C7_Created ==
    ReturnedOK =>
        /\ Len(dests) = call.before + 1
        /\ call.userID = (IF call.reqUser = "me" \/ call.reqUser = ""
                          THEN call.actor.id ELSE call.reqUser)
        /\ dests[Len(dests)].userID = call.userID
        /\ dests[Len(dests)].eventID = call.chosenID
        /\ call.chosenID \in call.returned
        /\ call.queries # <<>>

\* An admin's call for another user returned OK, its queries having
\* returned more than one event.
C7_Witness ==
    /\ ReturnedOK
    /\ call.actor.isAdmin
    /\ call.userID = "user"
    /\ Cardinality(call.returned) > 1

\* C8 - OK reply content: the history in a reply with result OK has the
\* newly created Destination as its first (most recent) entry, and the
\* event at each index is the event of the Destination at that index.
C8_Reply ==
    ReturnedOK =>
        /\ Len(call.replyDests) > 0
        /\ call.replyDests[1] = dests[Len(dests)]
        /\ Len(call.replyEvents) = Len(call.replyDests)
        /\ \A i \in 1..Len(call.replyDests) :
              call.replyEvents[i].id = call.replyDests[i].eventID

\* The caller is anonymous, or asks for another user and is no admin.
MustRefuse ==
    \/ call.actor.id = ""
    \/ /\ (IF call.reqUser = "me" \/ call.reqUser = ""
           THEN call.actor.id ELSE call.reqUser) # call.actor.id
       /\ ~call.actor.isAdmin

\* C9 - Authorization: a call by an anonymous caller, or by a caller who is
\* no admin for a user other than the caller, fails with kind Permission
\* without any store call; no other call fails with kind Permission.
C9_Permission ==
    Called =>
        /\ MustRefuse =>
              /\ call.err # NoErr
              /\ KindOf(call.err) = Permission
              /\ call.storeOps = <<>>
              /\ call.queries = <<>>
              /\ Len(dests) = call.before
        /\ ~MustRefuse => KindOf(call.err) # Permission

\* A user who has a Destination was refused a call for another user.
C9_Witness ==
    /\ Called
    /\ call.actor = [id |-> "user", isAdmin |-> FALSE]
    /\ call.reqUser = "admin"
    /\ \E n \in 1..Len(dests) : dests[n].userID = "user"
    /\ KindOf(call.err) = Permission

\* C10 - ERROR outcome: when the history fetch, the last-event lookup or a
\* window search fails, the reply's result is ERROR and the error's kind is
\* Internal.
C10_Error ==
    call.failed.at \in {"ListForUser", "GetByID", "Search"} =>
        /\ call.result = GenerateError
        /\ KindOf(call.err) = Internal

\* C11 - Search-loop termination: every call ends with one of the four
\* results; its queries start at now + 10 minutes + k * 90 minutes for
\* k = 0, 1, 2, ... in this order, none starts later than 48 hours after
\* now, there are at most 32 of them, and a call that results in
\* NO_RESULTS has issued all 32.
C11_Terminates ==
    Called =>
        /\ call.result \in {GenerateOK, GenerateWait, GenerateNoResults, GenerateError}
        /\ \A k \in 1..Len(call.queries) :
              /\ call.queries[k] = call.at + searchStart + (k - 1) * timeWindow
              /\ call.queries[k] - call.at <= 48 * 60
        /\ Len(call.queries) <= 32
        /\ call.result = GenerateNoResults => Len(call.queries) = 32

\* A call went through every window and resulted in NO_RESULTS.
C11_Witness ==
    /\ Called /\ Authorized
    /\ call.err = NoErr
    /\ call.result = GenerateNoResults
    /\ Len(call.queries) = 32

\* C12 - Bad events: no query of a call returns an event whose bad flag is
\* true, so the chosen event is never such an event; the store returns
\* such an event only to a search with includeBad set.
C12_NoBad ==
    Called =>
        /\ \A i \in call.returned : events[i].isBad # "true"
        /\ ReturnedOK => events[call.chosenID].isBad # "true"
        /\ \A k \in 1..Len(call.queries) :
              \A i \in doSearch(events, call.loc, call.queries[k],
                                call.queries[k] + timeWindow, FALSE) :
                  events[i].isBad # "true"

\* A call returned OK from a first query in whose window there was an
\* event flagged bad, which only a search with includeBad set returns.
C12_Witness ==
    /\ ReturnedOK
    /\ Len(call.queries) = 1
    /\ \E i \in doSearch(events, call.loc, call.queries[1],
                         call.queries[1] + timeWindow, TRUE) :
          /\ events[i].isBad = "true"
          /\ i \notin call.returned

----------------------------------------------------------------------------
(* Claims about EventSubmit                                                *)

\* A step that is a new call of EventSubmit.
SubmitCalled == sub'.calls = sub.calls + 1

\* A step in which the call makes an attempt.
AttemptMade == sub'.calls = sub.calls /\ sub'.attempts = sub.attempts + 1

\* A step in which the call sleeps a backoff.
SleepMade == sub'.calls = sub.calls /\ sub'.sleeps = sub.sleeps + 1

\* The call fails at once: no attempt is made, so no credential is
\* acquired and the Graph API is not called, and no table changes.
FailsAtOnce(kind) ==
    /\ sub'.pc = "done"
    /\ sub'.err # NoErr
    /\ KindOf(sub'.err) = kind
    /\ sub'.attempts = 0
    /\ sub'.fetcher = ""
    /\ UNCHANGED <<events, userRows, dests>>

\* C13 (as stated) - a call with more than 50 event ids always fails at
\* once with kind Invalid.
C13_TooManyAlways ==
    [][(SubmitCalled /\ Len(sub'.ids) > 50) => FailsAtOnce(Invalid)]_vars

\* C13 - a call by a logged-in caller with more than 50 event ids fails at
\* once with kind Invalid: before any credential is acquired, before any
\* call of the Graph API, without any store mutation.
C13_TooMany ==
    [][(SubmitCalled /\ sub'.actor # "" /\ Len(sub'.ids) > 50)
         => FailsAtOnce(Invalid)]_vars

\* A logged-in caller's request of 51 ids was refused while a user held a
\* token.
C13_Witness ==
    /\ sub.calls > 0
    /\ sub.actor = "user"
    /\ Len(sub.ids) = 51
    /\ KindOf(sub.err) = Invalid
    /\ TokenHolders(userRows) # {}

\* C14 - a call by an anonymous caller fails at once with kind Permission:
\* the retry loop is not entered.
C14_Anonymous ==
    [][(SubmitCalled /\ sub'.actor = "")
         => (FailsAtOnce(Permission) /\ sub'.retries = 0 /\ sub'.sleeps = 0)]_vars

\* An anonymous caller's request of one id was refused while a user held a
\* token.
C14_Witness ==
    /\ sub.calls > 0
    /\ sub.actor = ""
    /\ Len(sub.ids) = 1
    /\ KindOf(sub.err) = Permission
    /\ TokenHolders(userRows) # {}

\* C15 - Retry bound: a call makes at most 4 attempts; a call that ended
\* with every attempt failed and its context not cancelled made exactly 4
\* and returns the error of the 4th under its operation name; after an
\* attempt that succeeded the call is over, without error.
C15_RetryBound ==
    /\ sub.attempts <= 4
    /\ (sub.pc = "done" /\ sub.attempts > 0 /\ sub.attemptErr # NoErr
        /\ ~sub.cancelled)
       => /\ sub.attempts = 4
          /\ sub.sleeps = 3
          /\ sub.err = E("Service.EventSubmit", Other, "", sub.attemptErr)
    /\ (sub.attempts > 0 /\ sub.attemptErr = NoErr)
       => (sub.pc = "done" /\ sub.err = NoErr)

\* A call ended after four failed attempts.
C15_Witness ==
    /\ sub.pc = "done"
    /\ sub.attempts = 4
    /\ ~sub.cancelled
    /\ sub.err # NoErr

\* C16 - Cancellation: once the context is cancelled the call makes no
\* further attempt and sleeps no further backoff, and when it ends it
\* returns the cancellation.
C16_Cancelled ==
    [][(sub.cancelled /\ sub.pc # "done")
         => /\ ~AttemptMade
            /\ ~SleepMade
            /\ sub'.pc = "done" => sub'.err.text = ContextCanceled.text]_vars

\* C17 - Credential expiry: an attempt in which the Graph API reports the
\* token of user U expired, and the store writes the update, leaves U's
\* token empty and changes no other field of U and no other user's row;
\* no later attempt of the call acquires the token of a user whose token
\* the call has cleared.
C17_Expiry ==
    [][AttemptMade =>
         /\ (sub'.outcome = "expired" /\ sub'.failed.at # "UserUpdateExec")
            => /\ sub'.fetcher \in DOMAIN userRows
               /\ DOMAIN userRows' = DOMAIN userRows
               /\ userRows'[sub'.fetcher].facebookToken = ""
               /\ userRows'[sub'.fetcher].facebookID
                     = userRows[sub'.fetcher].facebookID
               /\ \A u \in DOMAIN userRows \ {sub'.fetcher} :
                     userRows'[u] = userRows[u]
         /\ sub'.fetcher \notin sub.expired]_vars

\* After an attempt found a token expired, a later attempt succeeded with
\* another user's token.
C17_Witness ==
    /\ sub.pc = "done"
    /\ sub.err = NoErr
    /\ sub.outcome = "saved"
    /\ sub.expired # {}
    /\ sub.fetcher \notin sub.expired
    /\ \A u \in sub.expired : userRows[u].facebookToken = ""

\* C18 - the attempt in which the Graph API reports the token expired
\* fails with an error of kind Internal.
C18_ExpiredInternal ==
    sub.outcome = "expired" => KindOf(sub.attemptErr) = Internal

\* C19 - Success postcondition: when the call has ended without error,
\* every body of the successful fetch is stored under its own id (as the
\* last body with that id), with the bad flag IsBadEvent gives for the
\* stored event; an attempt in which a store call fails at a body fails
\* with kind Internal and leaves the events of the bodies after it as
\* they were.
C19_Saved ==
    [][AttemptMade =>
         /\ sub'.outcome = "saved" =>
               \A j \in DOMAIN sub'.bodies :
                   LET id == sub'.bodies[j].id
                       last == CHOOSE m \in DOMAIN sub'.bodies :
                                  /\ sub'.bodies[m].id = id
                                  /\ \A l \in DOMAIN sub'.bodies :
                                        sub'.bodies[l].id = id => l <= m
                   IN  /\ sub'.pc = "done" /\ sub'.err = NoErr
                       /\ id \in DOMAIN events'
                       /\ events'[id].id = id
                       /\ events'[id].name = sub'.bodies[last].name
                       /\ events'[id].description = sub'.bodies[last].description
                       /\ events'[id].isBad
                             = (IF IsBadEvent(SavedEvent(events'[id]))
                                THEN "true" ELSE "false")
         /\ sub'.outcome = "store-error" =>
               /\ KindOf(sub'.attemptErr) = Internal
               /\ \A j \in DOMAIN sub'.bodies :
                     (/\ j > sub'.failed.k
                      /\ \A m \in 1..sub'.failed.k :
                            sub'.bodies[m].id # sub'.bodies[j].id)
                     => IF sub'.bodies[j].id \in DOMAIN events
                        THEN /\ sub'.bodies[j].id \in DOMAIN events'
                             /\ events'[sub'.bodies[j].id]
                                   = events[sub'.bodies[j].id]
                        ELSE sub'.bodies[j].id \notin DOMAIN events']_vars

\* A call ended without error after storing two bodies, the first of them
\* bad and the second not.
C19_Witness ==
    /\ sub.pc = "done"
    /\ sub.err = NoErr
    /\ sub.outcome = "saved"
    /\ Len(sub.bodies) = 2
    /\ events[1].isBad = "true"
    /\ events[2].isBad = "false"

\* C20 - Retry eligibility: an attempt is followed by another attempt only
\* when it failed in the fetch, by an expired token or by another error of
\* the Graph API; a call refused by its checks makes no attempt.
C20_Eligible ==
    [][(AttemptMade /\ sub.attempts > 0)
         => sub.outcome \in {"expired", "fetch-error"}]_vars

\* C21 - Cancellation classification: a DestGenerate call whose search query
\* failed in the search-window loop (a cancelled context makes the query
\* fail) has failed with an error that is not of kind Internal and that
\* carries the cancellation.
C21_Cancelled ==
    (Called /\ call.failed.at = "Search")
        => /\ call.err # NoErr
           /\ ~Is(Internal, call.err)
           /\ call.err.text = ContextCanceled.text

\* C22 - Error construction rule: after errors.E(op, kind, user, cause) with
\* an *Error as cause, the new error carries op and user; the wrapped copy
\* of the cause has its user cleared if it equals user, and otherwise kept;
\* given a kind other than Other, the new error has that kind and the copy's
\* kind is Other if it was the same kind, and otherwise kept; given Other,
\* the new error takes the cause's kind and the copy's kind is Other; the
\* copy keeps the cause's op, and the text and the deeper *Errors of the
\* cause are kept.
C22_Construct ==
    (built.depth > 0 /\ built.cause.chain # <<>>) =>
        LET new == built.err.chain[1]
            inner == built.err.chain[2]
            prev == built.cause.chain[1]
        IN  /\ new.op = built.op
            /\ new.user = built.user
            /\ inner.user = (IF prev.user = built.user THEN "" ELSE prev.user)
            /\ built.kind # Other =>
                  /\ new.kind = built.kind
                  /\ inner.kind = (IF prev.kind = built.kind THEN Other
                                   ELSE prev.kind)
            /\ built.kind = Other =>
                  /\ new.kind = prev.kind
                  /\ inner.kind = Other
            /\ inner.op = prev.op
            /\ built.err.text = built.cause.text
            /\ Wrapped(Wrapped(built.err)) = Wrapped(built.cause)

\* An error of no kind of its own was built over an *Error of kind Permission
\* of the same user, with an op and a text.
C22_Witness ==
    /\ built.depth = 2
    /\ built.kind = Other
    /\ built.user = "user"
    /\ built.cause.chain[1] = [op |-> "Service.DestGet", kind |-> Permission,
                               user |-> "user"]
    /\ built.cause.text # ""

\* C23 - Chain-wide uniqueness: in a chain built by nested errors.E calls no
\* kind other than Other and no user is stated by two *Errors of the chain.
C23_Unique ==
    \A i, j \in DOMAIN built.err.chain :
        i < j =>
            /\ built.err.chain[i].kind # Other
                  => built.err.chain[j].kind # built.err.chain[i].kind
            /\ built.err.chain[i].user # ""
                  => built.err.chain[j].user # built.err.chain[i].user

\* C24 - Outermost-kind classification: for a chain built by errors.E calls
\* and a kind k other than Other, errors.Is(k, err) holds exactly when the
\* outermost *Error has kind k; and errStatus, which reads the outermost
\* kind, gives 500 when errors.Is holds of no kind.
C24_Outermost ==
    built.depth > 0 =>
        /\ \A k \in ErrKinds \ {Other} :
               Is(k, built.err) <=> (KindOf(built.err) = k)
        /\ (\A k \in ErrKinds \ {Other} : ~Is(k, built.err))
               => errStatus(built.err) = 500

\* A chain of three *Errors whose outermost kind, Permission, was pulled up
\* from its cause, over an innermost *Error of kind Internal.
C24_Witness ==
    /\ built.depth = 3
    /\ built.kind = Other
    /\ KindOf(built.err) = Permission
    /\ built.err.chain[3].kind = Internal

\* C26 - Status mapping: the status of an *Error is that of its kind:
\* Invalid 400, NotLoggedIn 401, Permission 403, NotExist 404, Exist 409,
\* Internal 500, Other 500.
C26_Status ==
    built.depth > 0 =>
        LET kind == KindOf(built.err)
            status == errStatus(built.err)
        IN  /\ kind = Invalid => status = 400
            /\ kind = NotLoggedIn => status = 401
            /\ kind = Permission => status = 403
            /\ kind = NotExist => status = 404
            /\ kind = Exist => status = 409
            /\ kind = Internal => status = 500
            /\ kind = Other => status = 500
            /\ kind \in ErrKinds

\* An *Error of kind Exist wrapping an *Error of kind NotExist.
C26_Witness ==
    /\ built.depth = 2
    /\ KindOf(built.err) = Exist
    /\ built.err.chain[2].kind = NotExist

\* What the pattern asks of the error: every field of the pattern that is
\* set equals the field of the error, through the *Errors the pattern wraps
\* (a plain error the pattern wraps equals an error of the same message).
RECURSIVE PatternHolds(_, _)
PatternHolds(pattern, err) ==
    /\ pattern.chain # <<>>
    /\ err.chain # <<>>
    /\ LET p == Head(pattern.chain)
           e == Head(err.chain)
       IN  /\ p.op # "" => e.op = p.op
           /\ p.kind # Other => e.kind = p.kind
           /\ p.user # "" => e.user = p.user
           /\ Wrapped(pattern) # NoErr =>
                 IF Wrapped(pattern).chain # <<>>
                 THEN PatternHolds(Wrapped(pattern), Wrapped(err))
                 ELSE /\ Wrapped(err) # NoErr
                      /\ ErrorText(Wrapped(err)) = ErrorText(Wrapped(pattern))

\* C25 - errors.Match(err, pattern), with the arguments in that order,
\* returns true exactly when every field set in the pattern equals the
\* field of the error, through the *Errors the pattern wraps.
C25_Match ==
    built.matched # "none" =>
        ((built.matched = "yes") <=> PatternHolds(built.other, built.err))

\* A step that is a DestGet, DestUpdate or DestList call.
AccessMade == access' # access \/ (dests' # dests /\ call' = call)

\* C27 - Destination access control: a DestGet or DestUpdate call for an
\* existing Destination, in which the store answers, made by a caller who is
\* neither an admin nor its owner fails with kind Permission, writes no
\* Destination to the client and leaves table dests as it was; made by the
\* owner or an admin it does not fail with kind Permission, and DestGet
\* returns the Destination.
C27_Access ==
    [][(/\ AccessMade
        /\ access'.op \in {"DestGet", "DestUpdate"}
        /\ access'.id \in DOMAIN dests
        /\ access'.failed.at \notin {"DestStoreGet"})
        => IF /\ ~access'.actor.isAdmin
              /\ access'.actor.id # dests[access'.id].userID
           THEN /\ Is(Permission, access'.err)
                /\ Replied(access'.dest, access'.err) = ZeroDest
                /\ dests' = dests
           ELSE /\ ~Is(Permission, access'.err)
                /\ access'.op = "DestGet"
                      => /\ access'.err = NoErr
                         /\ Replied(access'.dest, access'.err) = dests[access'.id]]_vars

\* The user asked to set the status of the stranger's first Destination and
\* was refused.
C27_Witness ==
    /\ access.op = "DestUpdate"
    /\ access.actor = [id |-> "user", isAdmin |-> FALSE]
    /\ access.id = 1
    /\ access.update.mask = <<"status">>
    /\ Len(dests) = MaxHistory
    /\ dests[1].userID = "stranger"
    /\ Is(Permission, access.err)

C29_Masked ==
    [][\A i \in DOMAIN dests :
          /\ i \in DOMAIN dests'
          /\ dests'[i].id = dests[i].id
          /\ dests'[i].userID = dests[i].userID
          /\ dests'[i].eventID = dests[i].eventID
          /\ \A f \in {"feedback", "status"} :
                dests'[i][f] # dests[i][f] =>
                    /\ AccessMade
                    /\ access'.op = "DestUpdate"
                    /\ dests[i].id = access'.id
                    /\ \E n \in DOMAIN access'.update.mask :
                          access'.update.mask[n] = f
                    /\ dests'[i][f] = access'.update[f]]_vars

\* An admin set the status, and only the status, of the stranger's first
\* Destination with an update that also carried a feedback.
C29_Witness ==
    /\ access.op = "DestUpdate"
    /\ access.actor.isAdmin
    /\ access.id = 1
    /\ access.update = [feedback |-> "great", status |-> "went",
                        mask |-> <<"status">>]
    /\ access.err = NoErr
    /\ Len(dests) = MaxHistory
    /\ dests[1] = [id |-> 1, userID |-> "stranger", eventID |-> 1,
                   feedback |-> "", status |-> "went"]

\* The currency symbols of the descriptions.
CurrencySymbols == {"$", "¥", "₹", "₡", "₱", "£", "€", "₩", "₨", "﷼", "₽", "₪", "₺"}

\* C30 - IsBad is a pure function of name and description: the verdict of an
\* IsBadEvent call is true exactly when a name filter matches the name or a
\* description filter matches the description; a call on the event of the
\* call before gives the verdict of the call before; and the verdict is
\* true for every event whose description holds a currency symbol.
C30_IsBad ==
    [][classified'.n > classified.n =>
          /\ classified'.bad
                = (\/ \E filt \in nameFilters :
                         MatchString(filt, classified'.name)
                   \/ \E filt \in descFilters :
                         MatchString(filt, classified'.description))
          /\ (/\ classified.n > 0
              /\ classified'.name = classified.name
              /\ classified'.description = classified.description)
                => classified'.bad = classified.bad
          /\ (\E n \in DOMAIN classified'.description :
                 classified'.description[n] \in CurrencySymbols)
                => classified'.bad]_vars

----------------------------------------------------------------------------
(* Claims about calls that run side by side                                *)

\* The rows of a user in table dests, oldest first.
RowsOf(tbl, userID) == SelectSeq(tbl, LAMBDA d : d.userID = userID)

\* The users of the rows of a table dests.
Owners(tbl) == {tbl[n].userID : n \in 1..Len(tbl)}

\* C31 - No per-user serialization: the Create step of a DestGenerate call
\* adds a row for the event the call chose to the history of its user,
\* whatever another call has added to that history since the call read it
\* (so two calls that read the same history and passed the check of the
\* last event both create a Destination, possibly for the same event);
\* and a step changes the history of no user but the user of the call
\* that creates in it.
C31_Unserialized ==
    [][/\ \A p \in Procs :
             (conc.gen[p].pc = "create" /\ conc'.gen[p].pc = "list")
             => /\ Len(RowsOf(dests', conc.gen[p].c.userID))
                      = Len(RowsOf(dests, conc.gen[p].c.userID)) + 1
                /\ dests'[Len(dests')].eventID = conc.gen[p].c.chosenID
                /\ dests'[Len(dests')].userID = conc.gen[p].c.userID
       /\ \A u \in Owners(dests) \cup Owners(dests') :
             RowsOf(dests', u) # RowsOf(dests, u)
             => \E p \in Procs : /\ conc.gen[p].pc = "create"
                                 /\ conc'.gen[p].pc = "list"
                                 /\ conc.gen[p].c.userID = u]_vars

\* Two calls for the same user read the same history, whose last event
\* had started, chose the same event, and both created a Destination.
C31_Witness ==
    /\ conc.gen[1].pc \in {"list", "done"}
    /\ conc.gen[2].pc \in {"list", "done"}
    /\ conc.gen[1].c.result = GenerateOK
    /\ conc.gen[2].c.result = GenerateOK
    /\ conc.gen[1].c.userID = conc.gen[2].c.userID
    /\ conc.gen[1].read = conc.gen[2].read
    /\ conc.gen[1].read # <<>>
    /\ conc.gen[1].c.chosenID = conc.gen[2].c.chosenID
    /\ Len(RowsOf(dests, conc.gen[1].c.userID)) = Len(conc.gen[1].read) + 2

\* C32 - Bad events are hidden at all times: a DestGenerate call that runs
\* side by side with an EventSubmit call never chooses an event that
\* IsBadEvent deems bad as table events holds it when the call's query
\* finds it, be it between the upsert and the writing of the flag or when
\* a stored event is submitted again in a bad form.
C32_Hidden ==
    \A p \in Procs :
        conc.gen[p].chosen # <<>>
        => ~IsBadEvent(SavedEvent(conc.gen[p].chosen[1]))

\* C36 - Referential integrity: in every state reached through EventSubmit,
\* DestGenerate, DestList and DestUpdate calls, the eventID of every row of
\* table dests is the id of a row of table events; DestList side-loads the
\* event of every Dest it lists, and no DestGenerate call fails to find
\* the last event of the history or dereferences a Dest without a
\* side-loaded Event.
C36_Integrity ==
    /\ \A n \in 1..Len(dests) : dests[n].eventID \in DOMAIN events
    /\ \A p \in Procs :
          /\ ~conc.gen[p].c.panicked
          /\ ~Is(Internal, conc.gen[p].c.err)
          /\ \A m \in 1..Len(conc.gen[p].c.replyDests) :
                conc.gen[p].c.replyEvents[m].id
                    = conc.gen[p].c.replyDests[m].eventID
    /\ (access.op = "DestList" /\ access.err = NoErr)
       => \A m \in 1..Len(access.listed) :
              access.listedEvents[m].id = access.listed[m].eventID

\* An EventSubmit call has stored two events since a DestGenerate call
\* created a Dest, a DestUpdate call has changed the user's first Dest, and
\* DestList and a second DestGenerate call have listed the user's dests
\* with their events.
C36_Witness ==
    /\ conc.ingest.pc = "done"
    /\ Len(conc.ingest.bodies) = 2
    /\ Len(dests) = 3
    /\ dests[1].status = "went"
    /\ access.op = "DestList"
    /\ Len(access.listed) >= 2
    /\ conc.gen[2].pc = "done"
    /\ Len(conc.gen[2].c.replyEvents) >= 2

\* C34 - Non-expiry fetch failure: an attempt in which the Graph API reports
\* a failure other than an expired token fails with that very error, not
\* wrapped in an *Error and of no kind; no row of table users changes and
\* no row of table events is written or flagged, whatever bodies came back
\* with the error.
C34_FetchError ==
    [][(AttemptMade /\ sub'.outcome = "fetch-error")
         => /\ sub'.attemptErr = FacebookErr
            /\ sub'.attemptErr.chain = <<>>
            /\ KindOf(sub'.attemptErr) = Other
            /\ userRows' = userRows
            /\ events' = events]_vars

\* An attempt failed with an error of the Graph API that came with the
\* body of an event table events does not hold; a token is still stored.
C34_Witness ==
    /\ sub.outcome = "fetch-error"
    /\ sub.attempts > 0
    /\ sub.bodies # <<>>
    /\ sub.bodies[1].id \notin DOMAIN events
    /\ sub.fetcher \in TokenHolders(userRows)

----------------------------------------------------------------------------
(* Claims about the retry loop of EventSubmit                              *)

\* The users whose token is in good standing, and those whose token the
\* Graph API has expired.
ValidHolders == {u \in DOMAIN userRows : userRows[u].facebookToken = "valid"}
StaleHolders == {u \in DOMAIN userRows : userRows[u].facebookToken = "stale"}

\* When the running call began, a token in good standing was stored and at
\* most three expired ones.
Rotatable ==
    /\ ValidHolders # {}
    /\ Cardinality(StaleHolders) + Cardinality(sub.expired) <= 3

\* C33 - Credential rotation liveness: when at least one stored token is in
\* good standing and at most 3 are expired, and nothing else fails and the
\* context is not cancelled, the call ends, without error and after at
\* most 4 attempts; every token reported expired is cleared and no token in
\* good standing is changed; with one expired token and one in good
\* standing the call ends no later than the second attempt.
C33_Rotation ==
    /\ [](/\ \A u \in sub.expired : userRows[u].facebookToken = ""
          /\ (Rotatable /\ sub.pc = "done" /\ sub.calls > 0)
             => /\ sub.err = NoErr
                /\ sub.outcome = "saved"
                /\ sub.attempts <= 4
                /\ (/\ Cardinality(ValidHolders) = 1
                    /\ Cardinality(StaleHolders) + Cardinality(sub.expired) = 1)
                   => sub.attempts <= 2)
    /\ [][\A u \in ValidHolders : userRows'[u] = userRows[u]]_vars
    /\ ((Rotatable /\ sub.pc = "retry") ~> (sub.pc = "done" /\ sub.err = NoErr))

\* The call ended without error at its fourth attempt, after three tokens
\* were reported expired and cleared.
C33_Witness ==
    /\ sub.pc = "done"
    /\ sub.err = NoErr
    /\ sub.attempts = 4
    /\ Cardinality(sub.expired) = 3
    /\ \A u \in sub.expired : userRows[u].facebookToken = ""
    /\ ValidHolders # {}

\* C35: after a failed attempt that is not the last, retry sleeps
\* 2^r seconds plus a jitter of at least 0 and less than 1 second, r being
\* the retries remaining once the failure is counted, so that the whole
\* seconds slept are 4, 2 and 1 in turn; and it sleeps neither after an
\* attempt that succeeded nor after the last failure, so that a call that
\* has ended slept once less than it attempted.
C35_Backoff ==
    /\ [][nap' # nap /\ nap' # NoNap =>
            LET slept == nap'[Len(nap')]
            IN  /\ sub.pc = "sleep"
                /\ sub.attemptErr # NoErr
                /\ slept.retries = retryCount - sub.attempts
                /\ slept.seconds = 2 ^ slept.retries
                /\ slept.seconds = <<4, 2, 1>>[Len(nap')]]_vars
    /\ [](sub.pc = "done" /\ sub.attempts > 0 => Len(nap) = sub.attempts - 1)

----------------------------------------------------------------------------
(* Claims about *Error values in memory                                    *)

\* C37: errors.E does not change the *Error it is given: after the call,
\* and ever after, the Error at the argument's address has the kind, user,
\* operation and cause it had when the call began; the error returned is
\* the one the pure function E gives for the argument's value, the
\* suppression of duplications showing only in the copy it holds; and two
\* calls that wrap the same *Error with the same user, operation and kind
\* return equal errors.
C37_ArgumentKept ==
    \A i \in DOMAIN heap.calls :
        LET c == heap.calls[i]
        IN  c.arg # 0 =>
              /\ heap.objs[c.arg] = c.before
              /\ Deref(heap.objs, Ref(c.arg)) = c.cause
              /\ Deref(heap.objs, Ref(c.result))
                     = E(c.op, c.kind, c.userID, c.cause)
              /\ heap.objs[c.result].err.ref \notin {0, c.arg}
              /\ \A j \in DOMAIN heap.calls :
                    /\ heap.calls[j].arg = c.arg
                    /\ heap.calls[j].userID = c.userID
                    /\ heap.calls[j].op = c.op
                    /\ heap.calls[j].kind = c.kind
                    => Deref(heap.objs, Ref(heap.calls[j].result))
                          = Deref(heap.objs, Ref(c.result))

\* The *Error of user "user" and kind Permission was wrapped twice for the
\* same user with the same kind: both copies lost user and kind, the
\* argument kept them.
C37_Witness ==
    \E i, j \in DOMAIN heap.calls :
        /\ i < j
        /\ heap.calls[i].arg # 0
        /\ heap.calls[j].arg = heap.calls[i].arg
        /\ heap.calls[i].userID = "user" /\ heap.calls[j].userID = "user"
        /\ heap.calls[i].kind = Permission /\ heap.calls[j].kind = Permission
        /\ heap.calls[i].op = heap.calls[j].op
        /\ heap.objs[heap.calls[i].arg].userID = "user"
        /\ heap.objs[heap.calls[i].arg].kind = Permission
        /\ \A k \in {i, j} :
              LET copy == heap.objs[heap.objs[heap.calls[k].result].err.ref]
              IN  copy.userID = "" /\ copy.kind = Other

----------------------------------------------------------------------------
(* Claims about errors sent to the client                                  *)

\* C38: an error of kind Invalid, NotLoggedIn, Permission, NotExist or
\* Exist that is turned into a response by ResponseForError and back into
\* an error by ToError is again an error of that kind; an *Error of kind
\* Internal or of no kind is sent with status 500, and the error made of
\* a response of status 500 is not an *Error and so has no kind; and the
\* error made of a response of status 200 is no error.
C38_RoundTrip ==
    /\ wire.pc = "got" =>
          /\ \A k \in {Invalid, NotLoggedIn, Permission, NotExist, Exist} :
                Is(k, wire.sent) => Is(k, wire.got)
          /\ wire.sent.chain # <<>>
                /\ (\/ Is(Internal, wire.sent)
                    \/ \A k \in ErrKinds \ {Other} : ~Is(k, wire.sent))
                => wire.resp.status = 500
          /\ wire.resp.status = 500 =>
                /\ wire.got.chain = <<>>
                /\ wire.got # NoErr
                /\ \A k \in ErrKinds : ~Is(k, wire.got)
    /\ wire.pc = "decoded" /\ wire.resp.status = 200 => wire.got = NoErr

\* An error of kind NotExist built by two errors.E calls, the outer one
\* given no kind, was sent with status 404 and came back as an error of
\* kind NotExist.
C38_Witness ==
    /\ wire.pc = "got"
    /\ built.depth = 2
    /\ built.kind = Other
    /\ Is(NotExist, wire.sent)
    /\ wire.resp.status = 404
    /\ Is(NotExist, wire.got)

====
